---- MODULE Spec2Model ----
(***************************************************************************)
(* ReplyX: the content script's automation loop (content_script.js, the    *)
(* "fast" version), the earlier version of the same script, and the        *)
(* caches of the content script and of the background coordinator.         *)
(*                                                                         *)
(* JavaScript runs one task at a time: a handler runs from its entry to    *)
(* its next `await delay(..)` (or to its end) without interleaving.  Each  *)
(* action below is one such task: a message, a timer callback, an observer *)
(* callback, or the resumption of an async function after a delay.         *)
(***************************************************************************)
EXTENDS Integers, Sequences, FiniteSets, TLC

(***************************************************************************)
(* Bounds of the model (not program constants).                            *)
(***************************************************************************)
NumTweets == 3        \* articles rendered in the feed, in DOM order 1..NumTweets
TweetH == 16          \* height of one article, px
ViewH == 40           \* window.innerHeight, px
MaxQueue == 2         \* cap on actionQueue.length
MaxCycles == 2        \* cap on runAutomation invocations suspended at once
MaxDrains == 2        \* cap on processActionQueue invocations suspended at once
MaxObserverRuns == 1  \* cap on processTweets invocations suspended at once
MaxStartTimers == 1   \* cap on pending setTimeout(runAutomation) timers
MaxOutbox == 2        \* cap on generation requests sent and not yet taken
MaxLikes == 3         \* cap on processedLikes
MaxExtraTotal == 1    \* cap on totalTweets above the number of rendered articles
MaxInbox == 1         \* cap on messages sent to the tab and not yet delivered
MaxReplyRuns == 2     \* cap on reply handlers suspended at once
MaxApiQueue == 1      \* cap on rateLimitQueue.length
MaxComments == 2      \* cap on processedComments
TickMs == 250         \* granularity of the clock of the timed specifications, ms
MaxTicks == 3         \* the clock of the timed specifications stops at MaxTicks * TickMs

(***************************************************************************)
(* Program constants.                                                      *)
(***************************************************************************)
StaleMs == 30000          \* content_script.js:186
DebounceMs == 500         \* content_script.js:135
PacingFastMs == 2000      \* content_script.js:194
PacingSlowMs == 5000      \* content_script.js:194
TweetCacheCap == 50       \* content_script.js:321
ApiCacheCap == 100        \* content_script.js:779
EmptyText == 0            \* the empty string '' returned by getTweetTextFast

Tweets == 1..NumTweets
CycleIds == 1..MaxCycles
DrainIds == 1..MaxDrains
ObserverIds == 1..MaxObserverRuns
ReplyIds == 1..MaxReplyRuns

VARIABLES
    settings,               \* {enableLiking, enableCommenting, automationEnabled}
    isRunning,
    lastActionTime,
    processedTweets,
    automationEnabled,
    automationInterval,     \* TRUE iff the setInterval handle is set
    pageVisibilityInterval, \* TRUE iff the heartbeat handle is set
    totalTweets,
    processedLikes,
    processedComments,
    currentTweetForComment, \* 0 = null
    tweetCache,             \* Map in insertion order: Seq of [key, value]
    actionQueue,            \* Seq of [tweetId, timestamp]
    isProcessingQueue,
    debounceTimer,          \* TRUE iff observer.debounceTimer is armed
    startTimers,            \* pending setTimeout(() => runAutomation(), ..)
    drains,                 \* processActionQueue invocations: DrainIds -> thread
    cycles,                 \* runAutomation invocations: CycleIds -> thread
    now,                    \* Date.now()
    likedMarker,            \* tweets showing [data-testid="unlike"]
    scrollY,                \* window.scrollY
    composerOpen,           \* tweet whose reply composer is open, 0 = none
    outbox,                 \* groqApiRequest messages sent to the coordinator
    apiCache,               \* the coordinator's Map: Seq of [key, value]
    reloadTimer,            \* (earlier script) setTimeout(reload, 5000) is pending
    datasetIds,             \* (earlier script) tweets whose dataset.tweetId is set
    inbox,                  \* messages the coordinator sent to the tab
    composerText,           \* the characters typed into the open composer
    replyRuns,              \* handleGroqResponse / handleCommentError invocations
    rateLimitQueue,         \* the coordinator's queue: Seq of [prompt, timestamp]
    apiProcessing,          \* the coordinator's isProcessingQueue
    apiWorker,              \* the coordinator's suspended request handler
    debounceDues            \* the times at which the pending debounce callbacks are due

vars == <<settings, isRunning, lastActionTime, processedTweets, automationEnabled,
          automationInterval, pageVisibilityInterval, totalTweets, processedLikes,
          processedComments, currentTweetForComment, tweetCache, actionQueue,
          isProcessingQueue, debounceTimer, startTimers, drains, cycles, now,
          likedMarker, scrollY, composerOpen, outbox, apiCache, reloadTimer,
          datasetIds, inbox, composerText, replyRuns, rateLimitQueue,
          apiProcessing, apiWorker, debounceDues>>

(***************************************************************************)
(* The state as one record, so that a handler is a function from state to  *)
(* state and a task commits the handler's result.                          *)
(***************************************************************************)
Cur ==
    [settings |-> settings, isRunning |-> isRunning, lastActionTime |-> lastActionTime,
     processedTweets |-> processedTweets, automationEnabled |-> automationEnabled,
     automationInterval |-> automationInterval,
     pageVisibilityInterval |-> pageVisibilityInterval, totalTweets |-> totalTweets,
     processedLikes |-> processedLikes, processedComments |-> processedComments,
     currentTweetForComment |-> currentTweetForComment, tweetCache |-> tweetCache,
     actionQueue |-> actionQueue, isProcessingQueue |-> isProcessingQueue,
     debounceTimer |-> debounceTimer, startTimers |-> startTimers, drains |-> drains,
     cycles |-> cycles, now |-> now, likedMarker |-> likedMarker,
     scrollY |-> scrollY, composerOpen |-> composerOpen,
     outbox |-> outbox, apiCache |-> apiCache,
     reloadTimer |-> reloadTimer, datasetIds |-> datasetIds,
     inbox |-> inbox, composerText |-> composerText, replyRuns |-> replyRuns,
     rateLimitQueue |-> rateLimitQueue, apiProcessing |-> apiProcessing,
     apiWorker |-> apiWorker, debounceDues |-> debounceDues,
     capped |-> FALSE]       \* set when a task needs more than a cap of the model

Commit(s) ==
    /\ settings' = s.settings
    /\ isRunning' = s.isRunning
    /\ lastActionTime' = s.lastActionTime
    /\ processedTweets' = s.processedTweets
    /\ automationEnabled' = s.automationEnabled
    /\ automationInterval' = s.automationInterval
    /\ pageVisibilityInterval' = s.pageVisibilityInterval
    /\ totalTweets' = s.totalTweets
    /\ processedLikes' = s.processedLikes
    /\ processedComments' = s.processedComments
    /\ currentTweetForComment' = s.currentTweetForComment
    /\ tweetCache' = s.tweetCache
    /\ actionQueue' = s.actionQueue
    /\ isProcessingQueue' = s.isProcessingQueue
    /\ debounceTimer' = s.debounceTimer
    /\ startTimers' = s.startTimers
    /\ drains' = s.drains
    /\ cycles' = s.cycles
    /\ now' = s.now
    /\ likedMarker' = s.likedMarker
    /\ scrollY' = s.scrollY
    /\ composerOpen' = s.composerOpen
    /\ outbox' = s.outbox
    /\ apiCache' = s.apiCache
    /\ reloadTimer' = s.reloadTimer
    /\ datasetIds' = s.datasetIds
    /\ inbox' = s.inbox
    /\ composerText' = s.composerText
    /\ replyRuns' = s.replyRuns
    /\ rateLimitQueue' = s.rateLimitQueue
    /\ apiProcessing' = s.apiProcessing
    /\ apiWorker' = s.apiWorker
    /\ debounceDues' = s.debounceDues

\* The caps of the model, applied to the result of every task.
WithinBounds(s) ==
    /\ ~s.capped
    /\ Len(s.actionQueue) <= MaxQueue
    /\ Len(s.outbox) <= MaxOutbox
    /\ s.startTimers <= MaxStartTimers
    /\ s.processedLikes <= MaxLikes
    /\ s.totalTweets <= NumTweets + MaxExtraTotal
    /\ Len(s.inbox) <= MaxInbox
    /\ Len(s.rateLimitQueue) <= MaxApiQueue
    /\ s.processedComments <= MaxComments

Step(s) == WithinBounds(s) /\ Commit(s)

(***************************************************************************)
(* Threads: an async function suspended at an await.                       *)
(***************************************************************************)
EngageStages == {"scrollWait", "likeFocus", "likeVerify", "replyFocus", "composerWait"}

IdleThread ==
    [pc |-> "idle", tweet |-> 0, actionTaken |-> FALSE, text |-> EmptyText,
     targetScroll |-> 0,
     wake |-> 0]             \* the time the pacing delay it awaits is over

Suspended(th, stage) == [th EXCEPT !.pc = stage]

\* An invocation of handleGroqResponse or handleCommentError
IdleReply == [pc |-> "idle", reply |-> <<>>]

\* The invocation of processApiQueue / processApiRequest (handleGroqApiRequest
\* in the older coordinator)
IdleWorker == [pc |-> "idle", prompt |-> <<>>]

\* What the page answers to the queries of one task.
Inputs ==
    [hasLike : BOOLEAN,        \* tweet.querySelector('[data-testid="like"]') found
     likeApplied : BOOLEAN,    \* the page reacts to the click by showing the marker
     gate : BOOLEAN,           \* shouldCommentFast(): Math.random() < 0.25
     textElement : {"absent", "empty", "text"},
     hasReply : BOOLEAN]       \* tweet.querySelector('[data-testid="reply"]') found

(***************************************************************************)
(* Geometry of the page.                                                   *)
(***************************************************************************)
Min(a, b) == IF a < b THEN a ELSE b
Max(a, b) == IF a > b THEN a ELSE b

DocTop(t) == (t - 1) * TweetH
DocHeight == NumTweets * TweetH
MaxScroll == Max(0, DocHeight - ViewH)
Clamp(y) == Min(Max(y, 0), MaxScroll)
RectTop(s, t) == DocTop(t) - s.scrollY
RectBottom(s, t) == RectTop(s, t) + TweetH
RectHeight(t) == TweetH

\* tweet.scrollIntoView({block: 'center'})
scrollIntoView(s, t) ==
    [s EXCEPT !.scrollY = Clamp(DocTop(t) + (TweetH \div 2) - (ViewH \div 2))]

\* window.scrollBy({top: dy})
scrollBy(s, dy) == [s EXCEPT !.scrollY = Clamp(s.scrollY + dy)]

(***************************************************************************)
(* A JavaScript Map: entries in insertion order.  set() of a present key   *)
(* replaces the value in place; set() of a new key appends.                *)
(***************************************************************************)
MapHas(m, k) == \E i \in 1..Len(m) : m[i].key = k
MapGet(m, k) == m[CHOOSE i \in 1..Len(m) : m[i].key = k].value
MapSet(m, k, v) ==
    IF MapHas(m, k)
    THEN [i \in 1..Len(m) |-> IF m[i].key = k THEN [key |-> k, value |-> v] ELSE m[i]]
    ELSE Append(m, [key |-> k, value |-> v])
MapDelete(m, k) == SelectSeq(m, LAMBDA e : e.key # k)
MapFirstKey(m) == m[1].key
MapKeys(m) == {m[i].key : i \in 1..Len(m)}

(***************************************************************************)
(* Texts are sequences of characters.  A character outside ASCII is        *)
(* written by its code point, "U+1F44D".                                   *)
(***************************************************************************)
NonAscii == {"U+1F4AF", "U+1F446", "U+1F525", "U+1F44D", "U+E9", "U+C9"}

Whitespace == {" ", "\n", "\t"}

\* String.prototype.toLowerCase, on the letters the texts of the model use
lowerChar(ch) ==
    CASE ch = "G" -> "g" [] ch = "M" -> "m" [] ch = "O" -> "o" [] ch = "K" -> "k"
      [] ch = "H" -> "h" [] ch = "N" -> "n" [] ch = "U+C9" -> "U+E9"
      [] OTHER -> ch

toLowerCase(str) == [i \in 1..Len(str) |-> lowerChar(str[i])]

\* str.substring(from, to), for 0 <= from <= to
substring(str, from, to) ==
    SubSeq(str, Min(from, Len(str)) + 1, Min(to, Len(str)))

\* str.trim()
trim(str) ==
    LET kept == {i \in 1..Len(str) : str[i] \notin Whitespace}
    IN  IF kept = {} THEN <<>>
        ELSE SubSeq(str, CHOOSE i \in kept : \A j \in kept : i <= j,
                         CHOOSE i \in kept : \A j \in kept : i >= j)

\* The text of tweet t as the page shows it, trimmed
TweetText(t) ==
    CASE t % 3 = 1 -> <<"G", "M">>
      [] t % 3 = 2 -> <<"g", "m">>
      [] OTHER -> <<"O", "k">>

(***************************************************************************)
(* getTweetTextFast: the text of a tweet, through tweetCache.              *)
(***************************************************************************)
\* Mutant of cleanTweetCache: evicts the newest key instead of the oldest.
cleanTweetCacheNewest(m) ==
    IF Len(m) > TweetCacheCap THEN MapDelete(m, m[Len(m)].key) ELSE m

\* "Clean cache if too big"
cleanTweetCache(m) ==
    IF Len(m) > TweetCacheCap THEN MapDelete(m, MapFirstKey(m)) ELSE m

\* Returns [s, text]; the text of tweet t, when it has one, is written t.
getTweetTextFast(s, tweetId, textElement) ==
    IF MapHas(s.tweetCache, tweetId)
    THEN [s |-> s, text |-> MapGet(s.tweetCache, tweetId)]
    ELSE IF textElement # "absent"
         THEN LET text == IF textElement = "text" THEN tweetId ELSE EmptyText
              IN  [s |-> [s EXCEPT !.tweetCache =
                                      cleanTweetCache(MapSet(@, tweetId, text))],
                   text |-> text]
         ELSE [s |-> s, text |-> EmptyText]

(***************************************************************************)
(* The coordinator's apiCache: the lookup of handleGroqApiRequestFast and  *)
(* the store of processApiRequest.                                         *)
(***************************************************************************)
\* if (apiCache.has(cacheKey)) {.. data: apiCache.get(cacheKey) ..}
apiCacheLookup(s, cacheKey) ==
    IF MapHas(s.apiCache, cacheKey)
    THEN [s |-> s, hit |-> TRUE, data |-> MapGet(s.apiCache, cacheKey)]
    ELSE [s |-> s, hit |-> FALSE, data |-> ""]

\* "Clean cache if it gets too big"
cleanApiCache(m) ==
    IF Len(m) > ApiCacheCap THEN MapDelete(m, MapFirstKey(m)) ELSE m

\* apiCache.set(cacheKey, cleanResponse), then the clean-up
apiCacheStore(s, cacheKey, cleanResponse) ==
    [s EXCEPT !.apiCache = cleanApiCache(MapSet(@, cacheKey, cleanResponse))]

(***************************************************************************)
(* engageWithTweetFast, likePostFast, commentOnPostFast.  Each operator    *)
(* runs from one await to the next and returns [s, th]: the state and the  *)
(* thread, whose pc is the await it is suspended at, or "ret" when the     *)
(* engagement has returned.                                                *)
(***************************************************************************)
Ret(s, th) == [s |-> s, th |-> th]

\* if (actionTaken) {...}; return actionTaken
engageFinish(s, th) ==
    IF th.actionTaken
    THEN Ret([s EXCEPT !.processedTweets = @ \cup {th.tweet},
                       !.lastActionTime = s.now,
                       !.totalTweets = @ + 1],
             Suspended(th, "ret"))
    ELSE Ret(s, Suspended(th, "ret"))

\* Mutant of commentSend: the comment counter is raised with the request.
commentSendCounts(s, th) ==
    engageFinish([s EXCEPT !.currentTweetForComment = th.tweet,
                           !.outbox = Append(@, [type |-> "groqApiRequest",
                                                 prompt |-> TweetText(th.text)]),
                           !.processedComments = @ + 1],
                 [th EXCEPT !.actionTaken = TRUE])

\* commentOnPostFast after `await delay(fastMode ? 1000 : 2000)`
commentSend(s, th) ==
    engageFinish([s EXCEPT !.currentTweetForComment = th.tweet,
                           !.outbox = Append(@, [type |-> "groqApiRequest",
                                                 prompt |-> TweetText(th.text)])],
                 [th EXCEPT !.actionTaken = TRUE])

\* commentOnPostFast after `await delay(fastMode ? 100 : 500)`: replyButton.click()
commentClick(s, th) ==
    Ret([s EXCEPT !.composerOpen = th.tweet], Suspended(th, "composerWait"))

\* if (settings.enableCommenting && shouldCommentFast()) commentOnPostFast(tweet)
commentStep(s, th, inp) ==
    IF s.settings.enableCommenting /\ inp.gate
    THEN LET r == getTweetTextFast(s, th.tweet, inp.textElement)
         IN  IF r.text = EmptyText THEN engageFinish(r.s, th)
             ELSE IF ~inp.hasReply THEN engageFinish(r.s, th)
             ELSE Ret(r.s, [th EXCEPT !.pc = "replyFocus", !.text = r.text])
    ELSE engageFinish(s, th)

\* processedLikes++ on both success paths of likePostFast
likeCounted(s) == [s EXCEPT !.processedLikes = @ + 1]

\* Mutant of likeVerify: the like counts without the marker being looked for.
likeVerifyUnchecked(s, th, inp) ==
    commentStep(likeCounted(s), [th EXCEPT !.actionTaken = TRUE], inp)

\* likePostFast after `await delay(fastMode ? 300 : 1000)`: verify the marker
likeVerify(s, th, inp) ==
    IF th.tweet \in s.likedMarker
    THEN commentStep(likeCounted(s), [th EXCEPT !.actionTaken = TRUE], inp)
    ELSE commentStep(s, th, inp)

\* likePostFast after `await delay(fastMode ? 100 : 500)`: likeButton.click()
likeClick(s, th, inp) ==
    Ret([s EXCEPT !.likedMarker = IF inp.likeApplied THEN @ \cup {th.tweet} ELSE @],
        Suspended(th, "likeVerify"))

\* Mutant of likeStep: settings.enableLiking is not read.
likeStepAlways(s, th, inp) ==
    IF ~inp.hasLike THEN commentStep(s, th, inp)
    ELSE IF th.tweet \in s.likedMarker
         THEN commentStep(likeCounted(s), [th EXCEPT !.actionTaken = TRUE], inp)
         ELSE Ret(s, Suspended(th, "likeFocus"))

\* if (settings.enableLiking) likePostFast(tweet), up to its first await
likeStep(s, th, inp) ==
    IF s.settings.enableLiking
    THEN IF ~inp.hasLike THEN commentStep(s, th, inp)
         ELSE IF th.tweet \in s.likedMarker
              THEN commentStep(likeCounted(s),
                               [th EXCEPT !.actionTaken = TRUE], inp)
              ELSE Ret(s, Suspended(th, "likeFocus"))
    ELSE commentStep(s, th, inp)

\* engageWithTweetFast from its entry
engageWithTweetFast(s, tweetId, inp) ==
    LET th == [IdleThread EXCEPT !.tweet = tweetId]
    IN  IF RectBottom(s, tweetId) > ViewH
        THEN Ret(scrollIntoView(s, tweetId), Suspended(th, "scrollWait"))
        ELSE likeStep(s, th, inp)

\* engageWithTweetFast resumed after the await it is suspended at
engageResume(s, th, inp) ==
    CASE th.pc = "scrollWait" -> likeStep(s, th, inp)
      [] th.pc = "likeFocus" -> likeClick(s, th, inp)
      [] th.pc = "likeVerify" -> likeVerify(s, th, inp)
      [] th.pc = "replyFocus" -> commentClick(s, th)
      [] th.pc = "composerWait" -> commentSend(s, th)

\* An exception thrown by the statement th resumes at: the catch of
\* likePostFast and that of commentOnPostFast return false to the engagement,
\* which goes on; the catch of engageWithTweetFast returns false.
engageThrow(s, th, inp) ==
    CASE th.pc \in {"likeFocus", "likeVerify"} -> commentStep(s, th, inp)
      [] th.pc \in {"replyFocus", "composerWait"} -> engageFinish(s, th)
      [] th.pc = "scrollWait" ->
             Ret(s, Suspended([th EXCEPT !.actionTaken = FALSE], "ret"))

(***************************************************************************)
(* processActionQueue: the drain loop.                                     *)
(***************************************************************************)
\* Mutant of isStale: the age limit is not applied.
isStaleNever(s, action) == FALSE

\* "Skip old actions (older than 30 seconds)"
isStale(s, action) == s.now - action.timestamp > StaleMs

\* let fastMode = true; it is assigned nowhere else
fastMode == TRUE

\* delay(fastMode ? 2000 : 5000)
pacingDelay == IF fastMode THEN PacingFastMs ELSE PacingSlowMs

\* Mutant of drainAfterEngage: the loop goes on without a pacing delay.
drainAfterEngageNoDelay(s, d, th) ==
    IF th.pc = "ret"
    THEN [s EXCEPT !.drains[d] = [Suspended(IdleThread, "pacing") EXCEPT
                                     !.wake = s.now]]
    ELSE [s EXCEPT !.drains[d] = th]

\* The drain loop after `await engageWithTweetFast(..)` has run to th
drainAfterEngage(s, d, th) ==
    IF th.pc = "ret"
    THEN [s EXCEPT !.drains[d] = [Suspended(IdleThread, "pacing") EXCEPT
                                     !.wake = s.now + pacingDelay]]
    ELSE [s EXCEPT !.drains[d] = th]

\* while (actionQueue.length > 0) {...}; isProcessingQueue = false
RECURSIVE drainLoop(_, _, _)
drainLoop(s, d, inp) ==
    IF Len(s.actionQueue) > 0
    THEN LET action == Head(s.actionQueue)
             s1 == [s EXCEPT !.actionQueue = Tail(@)]
         IN  IF isStale(s1, action)
             THEN drainLoop(s1, d, inp)
             ELSE LET r == engageWithTweetFast(s1, action.tweetId, inp)
                  IN  drainAfterEngage(r.s, d, r.th)
    ELSE [s EXCEPT !.isProcessingQueue = FALSE, !.drains[d] = IdleThread]

\* Mutant of drainBegin: the flag is not raised.
drainBeginNoFlag(s) == s

\* isProcessingQueue = true
drainBegin(s) == [s EXCEPT !.isProcessingQueue = TRUE]

\* The lowest invocation slot that is free, 0 when the model's cap is reached.
FreeSlot(threads, ids) ==
    IF \E i \in ids : threads[i].pc = "idle"
    THEN CHOOSE i \in ids : /\ threads[i].pc = "idle"
                           /\ \A j \in ids : j < i => threads[j].pc # "idle"
    ELSE 0

\* processActionQueue from its entry
processActionQueue(s, inp) ==
    IF s.isProcessingQueue \/ Len(s.actionQueue) = 0
    THEN s
    ELSE LET d == FreeSlot(s.drains, DrainIds)
         IN  IF d = 0 THEN [s EXCEPT !.capped = TRUE]
             ELSE drainLoop(drainBegin(s), d, inp)

(***************************************************************************)
(* processTweetsQuickly: the scan of the mutation-observer path.           *)
(***************************************************************************)
\* rect.height > 0 && rect.top < window.innerHeight && rect.bottom > 0
visibleQuick(s, t) ==
    RectHeight(t) > 0 /\ RectTop(s, t) < ViewH /\ RectBottom(s, t) > 0

\* Mutant of scanCandidates: processed tweets are not filtered out.
scanCandidatesAll(s) == {t \in Tweets : visibleQuick(s, t)}

\* The tweets the loop does not `continue` past and whose rect test passes
scanCandidates(s) == {t \in Tweets : t \notin s.processedTweets /\ visibleQuick(s, t)}

\* The first of a non-empty set of tweets, in DOM order
First(S) == CHOOSE t \in S : \A u \in S : t <= u

\* Mutant of enqueue: the entry is put at the head of the queue.
enqueueFront(s, t) ==
    [s EXCEPT !.actionQueue = <<[tweetId |-> t, timestamp |-> s.now]>> \o @]

\* actionQueue.push({tweet, tweetId, timestamp: Date.now()})
enqueue(s, t) ==
    [s EXCEPT !.actionQueue = Append(@, [tweetId |-> t, timestamp |-> s.now])]

\* The candidates of a scan in DOM order
RECURSIVE InOrder(_)
InOrder(S) == IF S = {} THEN <<>> ELSE <<First(S)>> \o InOrder(S \ {First(S)})

\* Mutant of processTweetsQuickly: without the `break`, every candidate is queued.
processTweetsQuicklyNoBreak(s, inp) ==
    IF ~s.automationEnabled \/ s.isRunning
    THEN s
    ELSE IF scanCandidates(s) = {}
         THEN s
         ELSE LET order == InOrder(scanCandidates(s))
                  s1 == [s EXCEPT !.actionQueue =
                            @ \o [i \in 1..Len(order) |->
                                     [tweetId |-> order[i], timestamp |-> s.now]]]
              IN  IF ~s1.isProcessingQueue THEN processActionQueue(s1, inp) ELSE s1

processTweetsQuickly(s, inp) ==
    IF ~s.automationEnabled \/ s.isRunning
    THEN s
    ELSE IF scanCandidates(s) = {}
         THEN s
         ELSE LET s1 == enqueue(s, First(scanCandidates(s)))
              IN  IF ~s1.isProcessingQueue THEN processActionQueue(s1, inp) ELSE s1

(***************************************************************************)
(* runAutomation: one cycle.                                               *)
(***************************************************************************)
\* rect.height > 10 && rect.top >= 0 && rect.top < window.innerHeight
visibleCycle(s, t) ==
    RectHeight(t) > 10 /\ RectTop(s, t) >= 0 /\ RectTop(s, t) < ViewH

cycleCandidates(s) == {t \in Tweets : t \notin s.processedTweets /\ visibleCycle(s, t)}

\* Mutant of cycleFinally: isRunning is not reset.
cycleFinallyKeepsRunning(s, c) == [s EXCEPT !.cycles[c] = IdleThread]

\* finally { isRunning = false }
cycleFinally(s, c) == [s EXCEPT !.isRunning = FALSE, !.cycles[c] = IdleThread]

\* Mutant of cycleAfterEngage: processedInThisCycle is set only when the
\* engagement returned true, so that a cycle without an action scrolls on.
cycleAfterEngageScrolls(s, c, th) ==
    IF th.pc = "ret"
    THEN IF th.actionTaken THEN cycleFinally(s, c)
         ELSE [scrollBy(s, (ViewH * 85) \div 100) EXCEPT
                  !.cycles[c] = Suspended(IdleThread, "fallbackWait")]
    ELSE [s EXCEPT !.cycles[c] = th]

\* The cycle after `await engageWithTweetFast(..)` has run to th
cycleAfterEngage(s, c, th) ==
    IF th.pc = "ret" THEN cycleFinally(s, c) ELSE [s EXCEPT !.cycles[c] = th]

\* window.scrollBy({top: window.innerHeight * 0.85}); await delay(1500)
cycleScroll(s, c) ==
    [scrollBy(s, (ViewH * 85) \div 100) EXCEPT
        !.cycles[c] = Suspended(IdleThread, "fallbackWait")]

\* Mutant of cycleGuard: automationEnabled is not tested.
cycleGuardNoEnabled(s) == ~s.isRunning

\* The guard of runAutomation
cycleGuard(s) == ~s.isRunning /\ s.automationEnabled

runAutomation(s, inp) ==
    IF ~cycleGuard(s)
    THEN s
    ELSE LET c == FreeSlot(s.cycles, CycleIds)
             s1 == [s EXCEPT !.isRunning = TRUE, !.totalTweets = NumTweets]
         IN  IF c = 0 THEN [s EXCEPT !.capped = TRUE]
             ELSE IF cycleCandidates(s1) # {}
             THEN LET r == engageWithTweetFast(s1, First(cycleCandidates(s1)), inp)
                  IN  cycleAfterEngage(r.s, c, r.th)
             ELSE cycleScroll(s1, c)

(***************************************************************************)
(* toggleAutomation, startAutomationFast, stopAutomation.                  *)
(***************************************************************************)
\* Mutant of startAutomationFast: without `if (automationInterval) return`.
startAutomationFastAgain(s) ==
    [s EXCEPT !.startTimers = @ + 1, !.automationInterval = TRUE]

startAutomationFast(s) ==
    IF s.automationInterval
    THEN s
    ELSE [s EXCEPT !.startTimers = @ + 1, !.automationInterval = TRUE]

stopAutomation(s) ==
    [s EXCEPT !.automationInterval = FALSE,
              !.pageVisibilityInterval = FALSE,
              !.isRunning = FALSE]

toggleAutomation(s, enabled) ==
    LET s1 == [s EXCEPT !.automationEnabled = enabled]
    IN  IF enabled THEN startAutomationFast(s1) ELSE stopAutomation(s1)

(***************************************************************************)
(* The coordinator (background script): handleGroqApiRequestFast,          *)
(* processApiQueue, processApiRequest.                                     *)
(***************************************************************************)
ReplyMax == 150
ReplyKept == 147
ReplyMin == 3
ApiStaleMs == 30000
FingerprintLen == 50

\* getRandomFallback(): the phrases
Fallbacks ==
    <<<<"S", "o", " ", "t", "r", "u", "e", "!", " ", "U+1F4AF">>,
      <<"T", "h", "i", "s", "!", " ", "U+1F446">>,
      <<"E", "x", "a", "c", "t", "l", "y", "!">>,
      <<"F", "a", "c", "t", "s", " ", "U+1F525">>,
      <<"L", "o", "v", "e", " ", "t", "h", "i", "s", " ", "t", "a", "k", "e">>,
      <<"W", "e", "l", "l", " ", "s", "a", "i", "d", "!">>,
      <<"T", "h", "i", "s", " ", "h", "i", "t", "s", " ", "d", "i", "f", "f", "e", "r", "e", "n", "t">>,
      <<"B", "i", "g", " ", "m", "o", "o", "d">>,
      <<"C", "o", "u", "l", "d", "n", "'", "t", " ", "a", "g", "r", "e", "e", " ", "m", "o", "r", "e">>,
      <<"T", "h", "i", "s", " ", "i", "s", " ", "i", "t", "!">>>>

NumFallbacks == 10

getRandomFallback(pick) == Fallbacks[pick]

\* Contents of the service's answer: none; one with quotes, a newline, a
\* character outside ASCII and a trailing space; one shorter than ReplyMin
\* once cleaned; one longer than ReplyMax
NoContent == <<>>
QuotedContent == <<"\"", "N", "o", "\n", "w", "a", "y", "U+1F44D", "\"", " ">>
ShortContent == <<"\"", "o", "k", "\"">>
LongContent == [i \in 1..(ReplyMax + 1) |-> "a"]

\* What the coordinator's awaits resolve to
ApiInputs ==
    [hasKey : BOOLEAN,                     \* settings.groqApiKey is set
     outcome : {"ok", "notOk", "timeout", "rejected"},  \* of the fetch race
     content : {NoContent, QuotedContent, ShortContent, LongContent},
     pick : 1..NumFallbacks]               \* Math.floor(Math.random() * 10)

\* chrome.tabs.sendMessage(tabId, message)
sendToTab(s, message) == [s EXCEPT !.inbox = Append(@, message)]

sendFallbackResponse(s, pick) ==
    sendToTab(s, [type |-> "groqApiResponse", data |-> getRandomFallback(pick)])

\* data.prompt.toLowerCase().substring(0, 50)
cacheKeyOf(prompt) == substring(toLowerCase(prompt), 0, FingerprintLen)

\* .replace(/[^\x00-\x7F]/g, "").replace(/"/g, '').replace(/\n/g, ' ').trim()
sanitize(content) ==
    LET ascii == SelectSeq(content, LAMBDA ch : ch \notin NonAscii)
        unquoted == SelectSeq(ascii, LAMBDA ch : ch # "\"")
        oneLine == [i \in 1..Len(unquoted) |->
                       IF unquoted[i] = "\n" THEN " " ELSE unquoted[i]]
    IN  trim(oneLine)

\* Mutant of truncate: the reply is not cut.
truncateNever(str, max, kept) == str

\* if (cleanResponse.length > max) cleanResponse = substring(0, kept) + "..."
truncate(str, max, kept) ==
    IF Len(str) > max THEN substring(str, 0, kept) \o <<".", ".", ".">> ELSE str

\* The reply processApiRequest makes of the content of the service's answer
cleanResponseOf(content, pick) ==
    LET cut == truncate(sanitize(content), ReplyMax, ReplyKept)
    IN  IF Len(cut) < ReplyMin THEN getRandomFallback(pick) ELSE cut

\* The end of processApiRequest: `await new Promise(.. setTimeout(resolve, 100))`
apiPause(s) == [s EXCEPT !.apiWorker = Suspended(IdleWorker, "rateDelay")]

\* while (rateLimitQueue.length > 0) {...}; isProcessingQueue = false
RECURSIVE apiQueueLoop(_)
apiQueueLoop(s) ==
    IF Len(s.rateLimitQueue) > 0
    THEN LET request == Head(s.rateLimitQueue)
             s1 == [s EXCEPT !.rateLimitQueue = Tail(@)]
         IN  IF s1.now - request.timestamp > ApiStaleMs
             THEN apiQueueLoop(s1)
             ELSE [s1 EXCEPT !.apiWorker = [pc |-> "storage",
                                            prompt |-> request.prompt]]
    ELSE [s EXCEPT !.apiProcessing = FALSE, !.apiWorker = IdleWorker]

processApiQueue(s) ==
    IF s.apiProcessing \/ Len(s.rateLimitQueue) = 0
    THEN s
    ELSE apiQueueLoop([s EXCEPT !.apiProcessing = TRUE])

\* processApiRequest resumed after the await it is suspended at
processApiRequest(s, inp) ==
    LET w == s.apiWorker
    IN  CASE w.pc = "storage" ->
                 IF ~inp.hasKey
                 THEN apiPause(sendFallbackResponse(s, inp.pick))
                 ELSE [s EXCEPT !.apiWorker = Suspended(w, "fetch")]
          [] w.pc = "fetch" ->
                 IF inp.outcome = "ok"
                 THEN [s EXCEPT !.apiWorker = Suspended(w, "json")]
                 ELSE apiPause(sendFallbackResponse(s, inp.pick))
          [] w.pc = "json" ->
                 IF inp.content # NoContent
                 THEN LET cleanResponse == cleanResponseOf(inp.content, inp.pick)
                          stored == apiCacheStore(s, cacheKeyOf(w.prompt),
                                                  cleanResponse)
                      IN  apiPause(sendToTab(stored,
                                             [type |-> "groqApiResponse",
                                              data |-> cleanResponse]))
                 ELSE apiPause(sendFallbackResponse(s, inp.pick))
          [] w.pc = "rateDelay" -> apiQueueLoop(s)

\* Mutant of handleGroqApiRequestFast: the cache is not looked up.
handleGroqApiRequestUncached(s, data) ==
    LET s1 == [s EXCEPT !.rateLimitQueue =
                           Append(@, [prompt |-> data.prompt,
                                      timestamp |-> s.now])]
    IN  IF ~s1.apiProcessing THEN processApiQueue(s1) ELSE s1

handleGroqApiRequestFast(s, data) ==
    LET found == apiCacheLookup(s, cacheKeyOf(data.prompt))
    IN  IF found.hit
        THEN sendToTab(s, [type |-> "groqApiResponse", data |-> found.data])
        ELSE LET s1 == [s EXCEPT !.rateLimitQueue =
                                    Append(@, [prompt |-> data.prompt,
                                               timestamp |-> s.now])]
             IN  IF ~s1.apiProcessing THEN processApiQueue(s1) ELSE s1

(***************************************************************************)
(* The older coordinator: handleGroqApiRequest, one invocation per         *)
(* request, without queue or cache.                                        *)
(***************************************************************************)
OlderReplyMax == 200
OlderReplyKept == 197

OlderFallbacks ==
    <<<<"G", "r", "e", "a", "t", " ", "p", "o", "i", "n", "t", "!", " ", "U+1F44D">>,
      <<"I", "n", "t", "e", "r", "e", "s", "t", "i", "n", "g", " ", "p", "e", "r", "s", "p", "e", "c", "t", "i", "v", "e", "!">>,
      <<"T", "h", "a", "n", "k", "s", " ", "f", "o", "r", " ", "s", "h", "a", "r", "i", "n", "g", " ", "t", "h", "i", "s", "!">>,
      <<"R", "e", "a", "l", "l", "y", " ", "i", "n", "s", "i", "g", "h", "t", "f", "u", "l", "!">>,
      <<"I", " ", "a", "g", "r", "e", "e", " ", "w", "i", "t", "h", " ", "t", "h", "i", "s", "!">>,
      <<"W", "e", "l", "l", " ", "s", "a", "i", "d", "!">>,
      <<"T", "h", "i", "s", " ", "i", "s", " ", "s", "o", " ", "t", "r", "u", "e", "!">>,
      <<"E", "x", "a", "c", "t", "l", "y", " ", "m", "y", " ", "t", "h", "o", "u", "g", "h", "t", "s", "!">>,
      <<"L", "o", "v", "e", " ", "t", "h", "i", "s", " ", "t", "a", "k", "e", "!">>,
      <<"C", "o", "u", "l", "d", "n", "'", "t", " ", "a", "g", "r", "e", "e", " ", "m", "o", "r", "e", "!">>>>

\* "Interesting point! " and a thumbs-up
OlderEmptyReply ==
    <<"I", "n", "t", "e", "r", "e", "s", "t", "i", "n", "g", " ", "p", "o", "i", "n", "t", "!", " ", "U+1F44D">>

NoKeyError ==
    <<"N", "o", " ", "A", "P", "I", " ", "k", "e", "y", " ", "c", "o", "n", "f", "i", "g", "u", "r", "e", "d">>

olderFallback(s, pick) ==
    [sendToTab(s, [type |-> "groqApiResponse", data |-> OlderFallbacks[pick]])
        EXCEPT !.apiWorker = IdleWorker]

\* handleGroqApiRequest from its entry, up to `await chrome.storage.sync.get`
handleGroqApiRequest(s, data) ==
    IF s.apiWorker.pc # "idle"
    THEN [s EXCEPT !.capped = TRUE]
    ELSE [s EXCEPT !.apiWorker = [pc |-> "storage", prompt |-> data.prompt]]

\* handleGroqApiRequest resumed after the await it is suspended at
olderApiResume(s, inp) ==
    LET w == s.apiWorker
    IN  CASE w.pc = "storage" ->
                 IF ~inp.hasKey
                 THEN [sendToTab(s, [type |-> "groqApiError", data |-> NoKeyError])
                          EXCEPT !.apiWorker = IdleWorker]
                 ELSE [s EXCEPT !.apiWorker = Suspended(w, "fetch")]
          [] w.pc = "fetch" ->
                 CASE inp.outcome = "ok" ->
                          [s EXCEPT !.apiWorker = Suspended(w, "json")]
                   [] inp.outcome = "notOk" ->
                          [s EXCEPT !.apiWorker = Suspended(w, "errorText")]
                   [] OTHER -> olderFallback(s, inp.pick)
          [] w.pc = "errorText" -> olderFallback(s, inp.pick)
          [] w.pc = "json" ->
                 IF inp.content # NoContent
                 THEN LET cut == truncate(sanitize(inp.content), OlderReplyMax,
                                          OlderReplyKept)
                          cleanResponse == IF Len(cut) < ReplyMin
                                           THEN OlderEmptyReply ELSE cut
                      IN  [sendToTab(s, [type |-> "groqApiResponse",
                                         data |-> cleanResponse])
                              EXCEPT !.apiWorker = IdleWorker]
                 ELSE olderFallback(s, inp.pick)

(***************************************************************************)
(* The tab's side of a reply: handleGroqResponse, handleCommentError.      *)
(***************************************************************************)
\* What the page answers to the queries of a reply handler
ReplyInputs ==
    [editable : BOOLEAN,     \* document.activeElement is the composer's field
     hasSubmit : BOOLEAN,    \* findReplyButton() found a button
     dismissed : BOOLEAN]    \* the page closes the composer on the Escape event

\* handleCommentError(): dispatch Escape, `await delay(500)`
handleCommentError(s, r, inp) ==
    [s EXCEPT !.composerOpen = IF inp.dismissed THEN 0 ELSE @,
              !.composerText = IF inp.dismissed THEN <<>> ELSE @,
              !.replyRuns[r] = Suspended(IdleReply, "escapeWait")]

\* handleGroqResponse(reply), up to `await delay(fastMode ? 500 : 1000)`
handleGroqResponse(s, r, reply) ==
    [s EXCEPT !.replyRuns[r] = [pc |-> "insertWait", reply |-> reply]]

\* document.execCommand('insertText', false, reply)
insertText(s, reply) ==
    IF s.composerOpen # 0 THEN [s EXCEPT !.composerText = @ \o reply] ELSE s

\* replyButton.click(): the composer, if it holds text, posts it and closes
submitClick(s) ==
    IF s.composerOpen # 0 /\ s.composerText # <<>>
    THEN [s EXCEPT !.composerOpen = 0, !.composerText = <<>>]
    ELSE s

\* A reply handler resumed after the await it is suspended at
replyResume(s, r, inp) ==
    LET th == s.replyRuns[r]
    IN  CASE th.pc = "insertWait" ->
                 [(IF inp.editable THEN insertText(s, th.reply) ELSE s)
                     EXCEPT !.replyRuns[r] = Suspended(th, "submitWait")]
          [] th.pc = "submitWait" ->
                 IF inp.hasSubmit
                 THEN [submitClick(s) EXCEPT
                          !.processedComments = @ + 1,
                          !.replyRuns[r] = Suspended(th, "postWait")]
                 ELSE [s EXCEPT !.replyRuns[r] = IdleReply]
          [] th.pc = "postWait" ->
                 [scrollBy(s, (ViewH * 3) \div 10) EXCEPT
                     !.replyRuns[r] = Suspended(th, "scrollSettle")]
          [] th.pc \in {"scrollSettle", "escapeWait"} ->
                 [s EXCEPT !.replyRuns[r] = IdleReply]

\* The tab's message listener: 'groqApiResponse' and 'groqApiError'
tabMessage(s, message, inp) ==
    LET r == FreeSlot(s.replyRuns, ReplyIds)
    IN  IF r = 0 THEN [s EXCEPT !.capped = TRUE]
        ELSE IF message.type = "groqApiResponse"
             THEN handleGroqResponse(s, r, message.data)
             ELSE handleCommentError(s, r, inp)

(***************************************************************************)
(* The tasks.  I is the set of answers the page may give to the queries of *)
(* a task, V the set of settings a message may carry.                      *)
(***************************************************************************)
SettingsValues ==
    [enableLiking : BOOLEAN, enableCommenting : BOOLEAN, automationEnabled : BOOLEAN]

\* chrome.runtime.onMessage: 'automationToggle'
AutomationToggle ==
    \E enabled \in BOOLEAN : Step(toggleAutomation(Cur, enabled))

\* case 'settingsUpdated' of the message listener
settingsUpdated(s, new) ==
    LET s1 == [s EXCEPT !.settings = new]
    IN  IF new.automationEnabled # s1.automationEnabled
        THEN toggleAutomation(s1, new.automationEnabled)
        ELSE s1

\* chrome.runtime.onMessage: 'settingsUpdated'
SettingsUpdated(V) ==
    \E new \in V : Step(settingsUpdated(Cur, new))

\* document 'visibilitychange', the page having become visible
VisibilityChange ==
    /\ automationEnabled /\ ~isRunning
    /\ Step([Cur EXCEPT !.startTimers = @ + 1])

\* clearTimeout(observer.debounceTimer): the callback the handle refers to,
\* if it is still pending, is cancelled
clearDebounce(s) == [s EXCEPT !.debounceTimer = FALSE, !.debounceDues = {}]

\* observer.debounceTimer = setTimeout(() => processTweetsQuickly(), 500)
armDebounce(s) ==
    [s EXCEPT !.debounceTimer = TRUE, !.debounceDues = @ \cup {s.now + DebounceMs}]

\* Mutant of observerCallback: without the clearTimeout.
observerCallbackNoClear(s, hasNewTweets) ==
    IF s.isRunning \/ ~s.automationEnabled THEN s
    ELSE IF hasNewTweets THEN armDebounce(s)
    ELSE s

\* The MutationObserver callback; hasNewTweets: some mutation of the batch has
\* added nodes
observerCallback(s, hasNewTweets) ==
    IF s.isRunning \/ ~s.automationEnabled THEN s
    ELSE IF hasNewTweets THEN armDebounce(clearDebounce(s))
    ELSE s

\* The MutationObserver callback, for a batch with added nodes
MutationBatch ==
    /\ ~(isRunning \/ ~automationEnabled)
    /\ Step(observerCallback(Cur, TRUE))

\* A pending debounce callback, one of those due at a time in D, fires:
\* processTweetsQuickly()
DebounceFireAt(I, D) ==
    /\ debounceTimer
    /\ \E due \in debounceDues \cap D, inp \in I :
          Step(processTweetsQuickly(
                   [Cur EXCEPT !.debounceDues = @ \ {due},
                               !.debounceTimer = debounceDues \ {due} # {}], inp))

\* observer.debounceTimer fires, at whatever time
DebounceFire(I) == DebounceFireAt(I, debounceDues)

\* The MutationObserver callback, for a batch with or without added nodes
MutationBatchOf(B) ==
    \E hasNewTweets \in B : Step(observerCallback(Cur, hasNewTweets))

\* setInterval callback of startAutomationFast
IntervalTick(I) ==
    /\ automationInterval
    /\ ~isRunning
    /\ \E inp \in I : Step(runAutomation(Cur, inp))

\* setTimeout(() => runAutomation(), ..) fires
StartTimerFire(I) ==
    /\ startTimers > 0
    /\ \E inp \in I :
          Step(runAutomation([Cur EXCEPT !.startTimers = @ - 1], inp))

\* The drain loop d resumes after the await it is suspended at
drainResume(s, d, inp) ==
    IF s.drains[d].pc = "pacing"
    THEN drainLoop(s, d, inp)
    ELSE LET r == engageResume(s, s.drains[d], inp)
         IN  drainAfterEngage(r.s, d, r.th)

\* The drain loop resumes after an await, at whatever time
DrainResume(I) ==
    \E d \in DrainIds, inp \in I :
        /\ drains[d].pc # "idle"
        /\ Step(drainResume(Cur, d, inp))

\* The drain loop resumes after an await, the pacing delay when it is over
DrainResumeDue(I) ==
    \E d \in DrainIds, inp \in I :
        /\ drains[d].pc # "idle"
        /\ drains[d].pc = "pacing" => drains[d].wake <= now
        /\ Step(drainResume(Cur, d, inp))

\* The cycle c resumes after an await
CycleResumeOf(c, I) ==
    \E inp \in I :
        /\ cycles[c].pc # "idle"
        /\ Step(IF cycles[c].pc = "fallbackWait"
                THEN cycleFinally(Cur, c)
                ELSE LET r == engageResume(Cur, cycles[c], inp)
                     IN  cycleAfterEngage(r.s, c, r.th))

\* A cycle resumes after an await
CycleResume(I) == \E c \in CycleIds : CycleResumeOf(c, I)

\* The cycle c resumes in its engagement and the first statement throws
CycleThrowsOf(c, I) ==
    \E inp \in I :
        /\ cycles[c].pc \in EngageStages
        /\ Step(LET r == engageThrow(Cur, cycles[c], inp)
                IN  cycleAfterEngage(r.s, c, r.th))

\* The coordinator's chrome.runtime.onMessage: 'groqApiRequest'
CoordinatorReceive ==
    /\ Len(outbox) > 0
    /\ Step(handleGroqApiRequestFast([Cur EXCEPT !.outbox = Tail(@)], Head(outbox)))

\* The coordinator's request handler resumes after an await
ApiResume(A) ==
    /\ apiWorker.pc # "idle"
    /\ \E inp \in A : Step(processApiRequest(Cur, inp))

\* The older coordinator's chrome.runtime.onMessage: 'groqApiRequest'
OlderCoordinatorReceive ==
    /\ Len(outbox) > 0
    /\ Step(handleGroqApiRequest([Cur EXCEPT !.outbox = Tail(@)], Head(outbox)))

\* The older coordinator's request handler resumes after an await
OlderApiResume(A) ==
    /\ apiWorker.pc # "idle"
    /\ \E inp \in A : Step(olderApiResume(Cur, inp))

\* The tab's chrome.runtime.onMessage: 'groqApiResponse', 'groqApiError'
TabReceive(R) ==
    /\ Len(inbox) > 0
    /\ \E inp \in R : Step(tabMessage([Cur EXCEPT !.inbox = Tail(@)], Head(inbox), inp))

\* A reply handler resumes after an await
ReplyResume(R) ==
    \E r \in ReplyIds, inp \in R :
        /\ replyRuns[r].pc # "idle"
        /\ Step(replyResume(Cur, r, inp))

\* Time passes, to a later one of the instants the age limit tells apart
Instants == {0, StaleMs - 1, StaleMs, StaleMs + 1}

ClockAdvance ==
    \E t \in Instants : t > now /\ Step([Cur EXCEPT !.now = t])

(***************************************************************************)
(* Init: initialize() has loaded the settings V may hold and registered    *)
(* the observer and the heartbeat; automation is off (the stored default). *)
(***************************************************************************)
InitBase(V) ==
    /\ settings \in {v \in V : ~v.automationEnabled}
    /\ isRunning = FALSE
    /\ lastActionTime = 0
    /\ processedTweets = {}
    /\ automationEnabled = FALSE
    /\ automationInterval = FALSE
    /\ pageVisibilityInterval = TRUE
    /\ totalTweets = 0
    /\ processedLikes = 0
    /\ processedComments = 0
    /\ currentTweetForComment = 0
    /\ actionQueue = <<>>
    /\ isProcessingQueue = FALSE
    /\ debounceTimer = FALSE
    /\ startTimers = 0
    /\ drains = [d \in DrainIds |-> IdleThread]
    /\ cycles = [c \in CycleIds |-> IdleThread]
    /\ now = 0
    /\ likedMarker = {}
    /\ scrollY = 0
    /\ composerOpen = 0
    /\ outbox = <<>>
    /\ reloadTimer = FALSE
    /\ datasetIds = {}
    /\ inbox = <<>>
    /\ composerText = <<>>
    /\ replyRuns = [r \in ReplyIds |-> IdleReply]
    /\ rateLimitQueue = <<>>
    /\ apiProcessing = FALSE
    /\ apiWorker = IdleWorker
    /\ debounceDues = {}

InitWith(V) == InitBase(V) /\ tweetCache = <<>> /\ apiCache = <<>>

(***************************************************************************)
(* Spec: the scheduler, the queue and the engine with commenting switched  *)
(* off in the settings and the clock standing still.                       *)
(***************************************************************************)
LikeSettings == {v \in SettingsValues : ~v.enableCommenting}

LikeInputs ==
    {i \in Inputs : ~i.gate /\ i.textElement = "absent" /\ ~i.hasReply}

Init == InitWith(LikeSettings)

Next ==
    \/ AutomationToggle
    \/ SettingsUpdated(LikeSettings)
    \/ VisibilityChange
    \/ MutationBatch
    \/ DebounceFire(LikeInputs)
    \/ IntervalTick(LikeInputs)
    \/ StartTimerFire(LikeInputs)
    \/ DrainResume(LikeInputs)
    \/ CycleResume(LikeInputs)

Spec == Init /\ [][Next]_vars

(***************************************************************************)
(* Properties of Spec.                                                     *)
(***************************************************************************)
EngagingDrains == {d \in DrainIds : drains[d].pc \in EngageStages}
EngagingCycles == {c \in CycleIds : cycles[c].pc \in EngageStages}
ActiveDrains == {d \in DrainIds : drains[d].pc # "idle"}
ActiveCycles == {c \in CycleIds : cycles[c].pc # "idle"}

\* The number of engagements of tweet t in progress
Engaging(t) ==
    Cardinality({d \in EngagingDrains : drains[d].tweet = t})
        + Cardinality({c \in EngagingCycles : cycles[c].tweet = t})

IsPrefix(p, q) == Len(p) <= Len(q) /\ \A i \in 1..Len(p) : p[i] = q[i]

\* C1: at every moment at most one engagement of a feed item is in progress
\* (engageWithTweetFast entered and not yet returned), whether it was started by
\* the drain loop or by a runAutomation cycle.
C1_SingleEngagement ==
    Cardinality(EngagingDrains) + Cardinality(EngagingCycles) <= 1

\* C2: at most one runAutomation cycle is between `isRunning = true` and its
\* finally block at any time.
C2_SingleCycle == Cardinality(ActiveCycles) <= 1

\* C3: the action queue holds at most one entry per feed-item id.
C3_QueueDedup ==
    \A i, j \in 1..Len(actionQueue) :
        i # j => actionQueue[i].tweetId # actionQueue[j].tweetId

\* C4: no id is processed twice: the drain loop dispatches a queued action to
\* the engine only if its id has not been processed already and no engagement
\* of that id is in progress.
C4_NoDoubleProcessing ==
    [][(Len(actionQueue) > 0 /\ actionQueue' = Tail(actionQueue))
         => /\ Head(actionQueue).tweetId \notin processedTweets
            /\ Engaging(Head(actionQueue).tweetId) = 0]_vars

\* C5: at most one drain loop is active, it is active only under the
\* isProcessingQueue flag, and a scan that runs while a drain is active starts no
\* drain and pops nothing: it leaves the drain where it is and the queue as it
\* was, but for the entry the scan appends.
C5_SingleDrainInv ==
    /\ Cardinality(ActiveDrains) <= 1
    /\ ActiveDrains # {} => isProcessingQueue

C5_SingleDrain ==
    /\ []C5_SingleDrainInv
    /\ [][(debounceTimer /\ ~debounceTimer' /\ isProcessingQueue)
            => (drains' = drains /\ IsPrefix(actionQueue, actionQueue'))]_vars

\* C5 witness: a scan has run while the drain loop was active (its entry waits
\* in the queue behind the suspended drain).
C5_Witness ==
    /\ isProcessingQueue
    /\ ActiveDrains # {}
    /\ Len(actionQueue) > 0

\* C7: the like counter counts an item at most once, however often like is
\* called for it: it never exceeds the number of items that bear the liked marker.
C7_LikeCountedOnce == processedLikes <= Cardinality(likedMarker)

\* A scan (processTweetsQuickly past its guard) runs in this step
ScanRuns == debounceTimer /\ ~debounceTimer' /\ automationEnabled /\ ~isRunning

\* What a scan that selects tweet t leaves behind: behind an active drain, one
\* entry for t at the tail of the queue; otherwise a drain started on t, which is
\* suspended in the engagement of t or, the engagement having returned, pacing.
ScanSelected(t) ==
    IF isProcessingQueue
    THEN /\ actionQueue' = Append(actionQueue, [tweetId |-> t, timestamp |-> now])
         /\ drains' = drains
    ELSE /\ actionQueue' = actionQueue
         /\ \E d \in DrainIds :
               /\ drains[d].pc = "idle"
               /\ drains'[d].pc \in EngageStages \cup {"pacing"}
               /\ drains'[d].pc \in EngageStages => drains'[d].tweet = t
               /\ \A e \in DrainIds \ {d} : drains'[e] = drains[e]

\* Items A, B, C = 1, 2, 3 intersect the viewport; liking on, commenting off
ScenarioABC ==
    /\ NumTweets >= 3
    /\ \A t \in 1..3 : DocTop(t) - scrollY < ViewH /\ DocTop(t) + TweetH - scrollY > 0
    /\ settings.enableLiking /\ ~settings.enableCommenting

\* C10: with A, B, C visible, liking on and commenting off: a scan with none of
\* them processed selects A alone; the drain's like of an item, once the marker
\* shows, marks the item processed and counts it; a scan with only A processed
\* selects B alone.
C10_Scenario ==
    /\ [][(ScanRuns /\ ScenarioABC /\ processedTweets \cap (1..3) = {})
            => ScanSelected(1)]_vars
    /\ [][\A d \in DrainIds :
            (/\ ScenarioABC
             /\ drains[d].pc = "likeVerify" /\ drains'[d] # drains[d]
             /\ drains[d].tweet \in likedMarker)
            => /\ drains[d].tweet \in processedTweets'
               /\ processedLikes' = processedLikes + 1
               /\ drains'[d].pc = "pacing"]_vars
    /\ [][(ScanRuns /\ ScenarioABC /\ processedTweets \cap (1..3) = {1})
            => ScanSelected(2)]_vars

\* C10 witness: A is liked and processed, and the drain a later scan started is
\* engaging B.
C10_Witness ==
    /\ ScenarioABC
    /\ processedTweets = {1} /\ 1 \in likedMarker
    /\ \E d \in DrainIds : drains[d].pc = "likeFocus" /\ drains[d].tweet = 2
    /\ actionQueue = <<>>

(***************************************************************************)
(* SpecStale: the same program with the clock running; liking is on, and   *)
(* automation, once switched on, stays on.                                 *)
(***************************************************************************)
StaleSettings == {v \in LikeSettings : v.enableLiking}

InitStale == InitWith(StaleSettings)

NextStale ==
    \/ SettingsUpdated({v \in StaleSettings : v.automationEnabled})
    \/ MutationBatch
    \/ DebounceFire(LikeInputs)
    \/ IntervalTick(LikeInputs)
    \/ StartTimerFire(LikeInputs)
    \/ DrainResume(LikeInputs)
    \/ CycleResume(LikeInputs)
    \/ ClockAdvance

SpecStale == InitStale /\ [][NextStale]_vars

\* The drain loop pops the head of the queue in this step
PopsHead == Len(actionQueue) > 0 /\ Len(actionQueue') < Len(actionQueue)

HeadAge == now - Head(actionQueue).timestamp

\* The head was handed to the engine: it alone left the queue, and the drain is
\* suspended in its engagement or, the engagement having returned, pacing.
HeadDispatched ==
    /\ actionQueue' = Tail(actionQueue)
    /\ \E d \in DrainIds :
          /\ drains[d].pc = "pacing"
          /\ \/ drains'[d].pc = "pacing"
             \/ /\ drains'[d].pc \in EngageStages
                /\ drains'[d].tweet = Head(actionQueue).tweetId

\* The head was dropped and the loop went on: to the next entry, or, the queue
\* exhausted, to its end with nothing of the engine's touched.
HeadDiscarded ==
    \/ Len(actionQueue') <= Len(actionQueue) - 2
    \/ /\ Len(actionQueue) = 1 /\ actionQueue' = <<>>
       /\ \A d \in DrainIds : drains'[d].pc = "idle"
       /\ ~isProcessingQueue'
       /\ UNCHANGED <<processedTweets, processedLikes, totalTweets, likedMarker,
                      scrollY, lastActionTime>>

\* C6: an action popped 30001 ms after it was enqueued is discarded without the
\* engine being invoked; popped 29999 ms after, it is dispatched to the engine.
C6_Staleness ==
    [][PopsHead => /\ HeadAge = StaleMs + 1 => HeadDiscarded
                   /\ HeadAge = StaleMs - 1 => HeadDispatched]_vars

\* C6 witness: the drain loop is about to pop an action enqueued 30001 ms ago.
C6_Witness ==
    /\ \E d \in DrainIds : drains[d].pc = "pacing"
    /\ Len(actionQueue) > 0
    /\ now - Head(actionQueue).timestamp = StaleMs + 1

\* The queue loses its first k entries in this step
HeadsTaken(k) ==
    actionQueue' = SubSeq(actionQueue, k + 1, Len(actionQueue))

\* C29: entries wait in the queue only behind an active drain loop; an entry
\* queued while the drain is active is appended to the tail and leaves the
\* drain as it is; entries leave the queue from the head only, taken by that
\* drain loop when it resumes from its pacing delay (dispatched, or discarded
\* if stale), so in the order they were queued; a scan that runs when no
\* drain is active starts a new drain, which takes its entry at once.
C29_Fifo ==
    /\ [](Len(actionQueue) > 0 =>
            /\ isProcessingQueue
            /\ Cardinality(ActiveDrains) = 1)
    /\ [][actionQueue' # actionQueue =>
            \/ /\ isProcessingQueue /\ ScanRuns
               /\ \E t \in Tweets :
                     actionQueue' = Append(actionQueue, [tweetId |-> t, timestamp |-> now])
               /\ drains' = drains
            \/ /\ \E k \in 1..Len(actionQueue) : HeadsTaken(k)
               /\ \E d \in ActiveDrains :
                     /\ drains[d].pc = "pacing"
                     /\ drains'[d].pc \in EngageStages =>
                           \E k \in 1..Len(actionQueue) :
                               /\ HeadsTaken(k)
                               /\ drains'[d].tweet = actionQueue[k].tweetId]_vars
    /\ [][(ScanRuns /\ ~isProcessingQueue /\ scanCandidates(Cur) # {}) =>
            /\ actionQueue' = <<>>
            /\ \E d \in DrainIds :
                  /\ drains[d].pc = "idle"
                  /\ drains'[d].pc \in EngageStages \cup {"pacing"}]_vars

\* C29 witness: two entries, queued at different times while the drain was
\* active, wait behind it in the order they were queued.
C29_Witness ==
    /\ isProcessingQueue /\ ActiveDrains # {}
    /\ Len(actionQueue) = 2
    /\ actionQueue[1].timestamp < actionQueue[2].timestamp

(***************************************************************************)
(* SpecCache: the two caches alone.  Each starts one entry short of its    *)
(* capacity, as it is after that many distinct keys; the keys looked up    *)
(* and stored are the oldest, the newest and two that are not cached.      *)
(***************************************************************************)
TweetKeys == {1, TweetCacheCap - 1, TweetCacheCap, TweetCacheCap + 1}
ApiKeys == {1, ApiCacheCap - 1, ApiCacheCap, ApiCacheCap + 1}
Replies == {"Exactly!", "Well said!"}

InitCache ==
    /\ InitBase(LikeSettings)
    /\ tweetCache = [i \in 1..(TweetCacheCap - 1) |-> [key |-> i, value |-> i]]
    /\ apiCache = [i \in 1..(ApiCacheCap - 1) |-> [key |-> i, value |-> "Exactly!"]]

\* getTweetTextFast(tweet)
TextLookup ==
    \E k \in TweetKeys, e \in {"absent", "empty", "text"} :
        Step(getTweetTextFast(Cur, k, e).s)

\* The cache check of handleGroqApiRequestFast
ApiLookup ==
    \E k \in ApiKeys : Step(apiCacheLookup(Cur, k).s)

\* The caching of a cleaned response in processApiRequest
ApiStore ==
    \E k \in ApiKeys, r \in Replies : Step(apiCacheStore(Cur, k, r))

NextCache == TextLookup \/ ApiLookup \/ ApiStore

SpecCache == InitCache /\ [][NextCache]_vars

\* One step of a cache of capacity cap, from c to c2, that keeps insertion order:
\* nothing changes; or a value is replaced in place; or a key that was not cached
\* is appended, and then, if the cache was full, exactly the first (oldest) entry
\* has left and all the others stay, in their order.
CacheStepInOrder(c, c2, cap) ==
    \/ c2 = c
    \/ /\ Len(c2) = Len(c)
       /\ \A i \in 1..Len(c) : c2[i].key = c[i].key
    \/ /\ c2 # <<>>
       /\ c2[Len(c2)].key \notin MapKeys(c)
       /\ SubSeq(c2, 1, Len(c2) - 1) = (IF Len(c) < cap THEN c ELSE Tail(c))

CacheInBound(c, cap) ==
    /\ Len(c) <= cap
    /\ \A i, j \in 1..Len(c) : i # j => c[i].key # c[j].key

\* What inserting the key k into the full cache c must leave: the first, oldest
\* entry gone, every other entry kept in its place in the order, k the newest.
InsertEvictsOldest(c, after, k, cap) ==
    /\ Len(after) = cap
    /\ MapKeys(after) = (MapKeys(c) \ {MapFirstKey(c)}) \cup {k}
    /\ \A i \in 2..Len(c) : after[i - 1] = c[i]
    /\ after[cap].key = k

\* The text lookups of the state: of a key that is not cached, into the full
\* cache; and of a cached key
TweetCacheInserts ==
    \A k \in TweetKeys, e \in {"empty", "text"} :
        LET after == getTweetTextFast(Cur, k, e).s.tweetCache
        IN  /\ (k \notin MapKeys(tweetCache) /\ Len(tweetCache) = TweetCacheCap)
                  => InsertEvictsOldest(tweetCache, after, k, TweetCacheCap)
            /\ k \in MapKeys(tweetCache) => after = tweetCache

\* The same for the coordinator: the store of a reply, and the lookup
ApiCacheInserts ==
    \A k \in ApiKeys :
        /\ \A r \in Replies :
              (k \notin MapKeys(apiCache) /\ Len(apiCache) = ApiCacheCap)
                 => InsertEvictsOldest(apiCache, apiCacheStore(Cur, k, r).apiCache,
                                       k, ApiCacheCap)
        /\ apiCacheLookup(Cur, k).s.apiCache = apiCache

\* C8: inserting a distinct key into a cache at capacity (50 for tweetCache, 100
\* for apiCache) evicts exactly the oldest-inserted key and keeps all the other
\* entries; after an insert the size does not exceed the capacity; a hit changes
\* nothing, so the oldest key stays the oldest (insertion order, not LRU).
C8_CacheBound ==
    /\ [](/\ CacheInBound(tweetCache, TweetCacheCap)
          /\ CacheInBound(apiCache, ApiCacheCap)
          /\ TweetCacheInserts
          /\ ApiCacheInserts)
    /\ [][/\ CacheStepInOrder(tweetCache, tweetCache', TweetCacheCap)
          /\ CacheStepInOrder(apiCache, apiCache', ApiCacheCap)]_vars

\* C8 witness: each cache is full and has evicted its oldest key, 1, for the
\* key inserted into the full cache.
C8_Witness ==
    /\ Len(tweetCache) = TweetCacheCap
    /\ MapFirstKey(tweetCache) = 2
    /\ tweetCache[TweetCacheCap].key = TweetCacheCap + 1
    /\ Len(apiCache) = ApiCacheCap
    /\ MapFirstKey(apiCache) = 2
    /\ apiCache[ApiCacheCap].key = ApiCacheCap + 1

(***************************************************************************)
(* The earlier content script (src/unnamed/part_000), which has the        *)
(* end-of-feed reset.  It has the same globals; its observer calls         *)
(* processTweets directly, and the slots of `drains` hold those suspended  *)
(* invocations.  An engagement returns th.actionTaken.                     *)
(***************************************************************************)
\* tweet.dataset.tweetId: the id once assigned, 0 for undefined
legacyTweetId(s, t) == IF t \in s.datasetIds THEN t ELSE 0

\* if (actionTaken) { updateLastActionTime(); await delay(30000 + ..) }; return
legacyEngageFinish(s, th) ==
    IF th.actionTaken
    THEN Ret([s EXCEPT !.lastActionTime = s.now], Suspended(th, "engagePacing"))
    ELSE Ret(s, Suspended(th, "ret"))

\* commentOnPost after `await delay(2000)`
legacyCommentSend(s, th) ==
    legacyEngageFinish([s EXCEPT !.currentTweetForComment = th.tweet,
                                 !.outbox = Append(@, [type |-> "groqApiRequest",
                                                       prompt |-> TweetText(th.text)])],
                       [th EXCEPT !.actionTaken = TRUE])

\* commentOnPost after the mouse movement and delay: replyButton.click()
legacyCommentClick(s, th) ==
    Ret([s EXCEPT !.composerOpen = th.tweet], Suspended(th, "composerWait"))

\* getTweetText(tweet): the text of tweet t, when one is found, is written t
getTweetText(tweetId, textElement) ==
    IF textElement = "text" THEN tweetId ELSE EmptyText

\* if (settings.enableCommenting && shouldComment()) commentOnPost(tweet)
legacyCommentStep(s, th, inp) ==
    IF s.settings.enableCommenting /\ inp.gate
    THEN LET tweetText == getTweetText(th.tweet, inp.textElement)
         IN  IF tweetText = EmptyText THEN legacyEngageFinish(s, th)
             ELSE IF ~inp.hasReply THEN legacyEngageFinish(s, th)
             ELSE Ret(s, [th EXCEPT !.pc = "replyFocus", !.text = tweetText])
    ELSE legacyEngageFinish(s, th)

\* if (liked) actionTaken = true, for a like that returned true after processedLikes++
legacyLiked(s, th, inp) ==
    legacyCommentStep([s EXCEPT !.processedLikes = @ + 1],
                      [th EXCEPT !.actionTaken = TRUE], inp)

\* likePost after `await delay(1000)`: verifyLiked
legacyLikeVerify(s, th, inp) ==
    IF th.tweet \in s.likedMarker
    THEN legacyLiked(s, th, inp)
    ELSE legacyCommentStep(s, th, inp)

\* likePost after the mouse movement and delay: likeButton.click()
legacyLikeClick(s, th, inp) ==
    Ret([s EXCEPT !.likedMarker = IF inp.likeApplied THEN @ \cup {th.tweet} ELSE @],
        Suspended(th, "likeVerify"))

\* likePost from "Check if already liked"; likeButton is the first lookup's
\* result, so after a retry that found the button it is still null and
\* simulateMouseMovement(null) throws into the catch, which returns false
legacyLikeCheck(s, th, inp, likeButton) ==
    IF th.tweet \in s.likedMarker
    THEN legacyLiked(s, th, inp)
    ELSE IF ~likeButton
         THEN legacyCommentStep(s, th, inp)
         ELSE Ret(s, Suspended(th, "likeFocus"))

\* likePost after the `await delay(1000)` of the retry
legacyLikeRetry(s, th, inp) ==
    IF ~inp.hasLike
    THEN legacyCommentStep(s, th, inp)
    ELSE legacyLikeCheck(s, th, inp, FALSE)

\* if (settings.enableLiking) likePost(tweet), up to its first await
legacyLikeStep(s, th, inp) ==
    IF s.settings.enableLiking
    THEN IF ~inp.hasLike
         THEN Ret(s, Suspended(th, "likeRetry"))
         ELSE legacyLikeCheck(s, th, inp, TRUE)
    ELSE legacyCommentStep(s, th, inp)

\* engageWithTweet from its entry: scrollIntoView, await delay(1000)
engageWithTweet(s, tweetId) ==
    Ret(scrollIntoView(s, tweetId),
        [IdleThread EXCEPT !.pc = "scrollWait", !.tweet = tweetId])

\* engageWithTweet resumed after the await it is suspended at
legacyEngageResume(s, th, inp) ==
    CASE th.pc = "scrollWait" ->
             IF RectTop(s, th.tweet) < 0 \/ RectBottom(s, th.tweet) > ViewH
             THEN Ret(s, Suspended(th, "ret"))
             ELSE legacyLikeStep(s, th, inp)
      [] th.pc = "likeRetry" -> legacyLikeRetry(s, th, inp)
      [] th.pc = "likeFocus" -> legacyLikeClick(s, th, inp)
      [] th.pc = "likeVerify" -> legacyLikeVerify(s, th, inp)
      [] th.pc = "replyFocus" -> legacyCommentClick(s, th)
      [] th.pc = "composerWait" -> legacyCommentSend(s, th)
      [] th.pc = "engagePacing" -> Ret(s, Suspended(th, "ret"))

\* finally { isRunning = false }
legacyFinally(s, c) == [s EXCEPT !.isRunning = FALSE, !.cycles[c] = IdleThread]

\* Mutant of legacyReset: the processed-id set is not cleared.
legacyResetKeepsProcessed(s) ==
    [s EXCEPT !.totalTweets = 0, !.processedLikes = 0, !.processedComments = 0,
              !.reloadTimer = TRUE]

\* "Reached end of feed, refreshing page..."
legacyReset(s) ==
    [s EXCEPT !.totalTweets = 0, !.processedLikes = 0, !.processedComments = 0,
              !.processedTweets = {}, !.reloadTimer = TRUE]

\* Mutant of legacyScrollForMore: the session is reset wherever the window is.
legacyScrollForMoreResets(s, c) == legacyFinally(legacyReset(s), c)

\* if (!processedAnyTweet) { scrolled = await smoothScroll(); if (!scrolled) .. }
\* The frames of the scroll animation are one await, ended by scrollTo(target).
legacyScrollForMore(s, c) ==
    IF s.scrollY < MaxScroll
    THEN [s EXCEPT !.cycles[c] =
                      [IdleThread EXCEPT !.pc = "scrollAnimation",
                                         !.targetScroll =
                                             Min(s.scrollY + (ViewH \div 2), MaxScroll)]]
    ELSE legacyFinally(legacyReset(s), c)

\* for (const tweet of tweets) {...}, from the tweet `from` on
RECURSIVE legacyLoop(_, _, _)
legacyLoop(s, c, from) ==
    IF from > NumTweets
    THEN legacyScrollForMore(s, c)
    ELSE LET s1 == [s EXCEPT !.datasetIds = @ \cup {from}]
         IN  IF legacyTweetId(s1, from) \in s1.processedTweets
             THEN legacyLoop(s1, c, from + 1)
             ELSE [scrollIntoView(s1, from) EXCEPT
                      !.cycles[c] = [IdleThread EXCEPT !.pc = "loopScrollWait",
                                                       !.tweet = from]]

\* The loop after `await engageWithTweet(tweet)` has run to th
legacyAfterEngage(s, c, th) ==
    IF th.pc = "ret"
    THEN IF th.actionTaken
         THEN legacyFinally([s EXCEPT !.processedTweets =
                                         @ \cup {legacyTweetId(s, th.tweet)}], c)
         ELSE legacyLoop(s, c, th.tweet + 1)
    ELSE [s EXCEPT !.cycles[c] = th]

\* The loop after `await delay(2000)`: the viewport test, then the engagement
legacyLoopResume(s, c, th) ==
    IF RectTop(s, th.tweet) >= 0 /\ RectBottom(s, th.tweet) <= ViewH
    THEN LET r == engageWithTweet(s, th.tweet)
         IN  legacyAfterEngage(r.s, c, r.th)
    ELSE legacyLoop(s, c, th.tweet + 1)

\* runAutomation of the earlier script, from its entry
legacyRunAutomation(s) ==
    IF s.isRunning \/ ~s.automationEnabled
    THEN s
    ELSE LET c == FreeSlot(s.cycles, CycleIds)
         IN  IF c = 0 THEN [s EXCEPT !.capped = TRUE]
             ELSE legacyLoop([s EXCEPT !.isRunning = TRUE,
                                       !.totalTweets = NumTweets], c, 1)

\* A cycle of the earlier script resumed after the await it is suspended at
legacyCycleResume(s, c, inp) ==
    LET th == s.cycles[c]
    IN  CASE th.pc = "loopScrollWait" -> legacyLoopResume(s, c, th)
          [] th.pc = "scrollAnimation" ->
                 [s EXCEPT !.scrollY = th.targetScroll,
                           !.cycles[c] = Suspended(IdleThread, "scrollSettle")]
          [] th.pc = "scrollSettle" -> legacyFinally(s, c)
          [] OTHER -> LET r == legacyEngageResume(s, th, inp)
                      IN  legacyAfterEngage(r.s, c, r.th)

\* processTweets(container), up to the first await of engageWithTweet
processTweets(s, container) ==
    LET unprocessed == {t \in container : legacyTweetId(s, t) \notin s.processedTweets}
        d == FreeSlot(s.drains, ObserverIds)
    IN  IF ~s.automationEnabled \/ unprocessed = {}
        THEN s
        ELSE IF d = 0 THEN [s EXCEPT !.capped = TRUE]
        ELSE LET r == engageWithTweet(s, First(unprocessed))
             IN  [r.s EXCEPT !.drains[d] = r.th]

\* processTweets resumed: processedTweets.add(..) once the engagement returned
processTweetsResume(s, d, inp) ==
    LET r == legacyEngageResume(s, s.drains[d], inp)
    IN  IF r.th.pc = "ret"
        THEN [r.s EXCEPT !.processedTweets = @ \cup {legacyTweetId(r.s, r.th.tweet)},
                         !.drains[d] = IdleThread]
        ELSE [r.s EXCEPT !.drains[d] = r.th]

startAutomation(s) ==
    IF s.automationInterval
    THEN s
    ELSE [s EXCEPT !.scrollY = 0, !.startTimers = @ + 1, !.automationInterval = TRUE]

\* Mutant of legacyStopAutomation: stopping forgets the processed ids.
legacyStopAutomationClears(s) ==
    [s EXCEPT !.automationInterval = FALSE, !.isRunning = FALSE,
              !.processedTweets = {}]

legacyStopAutomation(s) ==
    [s EXCEPT !.automationInterval = FALSE, !.isRunning = FALSE]

legacyToggleAutomation(s, enabled) ==
    LET s1 == [s EXCEPT !.automationEnabled = enabled]
    IN  IF enabled THEN startAutomation(s1) ELSE legacyStopAutomation(s1)

\* The page and the script after window.location.reload(): the likes stay with
\* the page, the settings and the stored toggle are read back by initialize()
\* and initializeAutomation()
reloaded(s) ==
    LET fresh == [s EXCEPT !.isRunning = FALSE, !.lastActionTime = 0,
                           !.processedTweets = {}, !.automationEnabled = FALSE,
                           !.automationInterval = FALSE, !.totalTweets = 0,
                           !.processedLikes = 0, !.processedComments = 0,
                           !.currentTweetForComment = 0, !.startTimers = 0,
                           !.drains = [d \in DrainIds |-> IdleThread],
                           !.cycles = [c \in CycleIds |-> IdleThread],
                           !.scrollY = 0, !.composerOpen = 0,
                           !.reloadTimer = FALSE, !.datasetIds = {},
                           !.composerText = <<>>,
                           !.replyRuns = [r \in ReplyIds |-> IdleReply]]
    IN  IF s.automationEnabled THEN legacyToggleAutomation(fresh, TRUE) ELSE fresh

\* chrome.runtime.onMessage: 'settingsUpdated'
LegacySettingsUpdated(V) ==
    \E new \in V :
        LET s1 == [Cur EXCEPT !.settings = new]
        IN  Step(IF new.automationEnabled # s1.automationEnabled
                 THEN legacyToggleAutomation(s1, new.automationEnabled)
                 ELSE s1)

\* The MutationObserver callback, for an added node holding the tweets `container`
LegacyMutation ==
    /\ ~isRunning
    /\ \E container \in SUBSET Tweets : Step(processTweets(Cur, container))

\* A processTweets invocation resumes after an await
LegacyObserverResume(I) ==
    \E d \in DrainIds, inp \in I :
        /\ drains[d].pc # "idle"
        /\ Step(processTweetsResume(Cur, d, inp))

\* setTimeout(() => runAutomation(), 2000) fires
LegacyStartTimerFire ==
    /\ startTimers > 0
    /\ Step(legacyRunAutomation([Cur EXCEPT !.startTimers = @ - 1]))

\* setInterval callback of startAutomation
LegacyIntervalTick ==
    /\ automationInterval
    /\ ~isRunning
    /\ Step(legacyRunAutomation(Cur))

\* A cycle resumes after an await
LegacyCycleResume(I) ==
    \E c \in CycleIds, inp \in I :
        /\ cycles[c].pc # "idle"
        /\ Step(legacyCycleResume(Cur, c, inp))

\* setTimeout(() => window.location.reload(), 5000) fires
Reload ==
    /\ reloadTimer
    /\ Step(reloaded(Cur))

(***************************************************************************)
(* SpecLegacy: the earlier script with commenting switched off and the     *)
(* automation left on once it has been enabled.                            *)
(***************************************************************************)
InitLegacy == InitWith(LikeSettings)

NextLegacy ==
    \/ LegacySettingsUpdated({v \in LikeSettings : v.automationEnabled})
    \/ LegacyMutation
    \/ LegacyObserverResume(LikeInputs)
    \/ LegacyStartTimerFire
    \/ LegacyIntervalTick
    \/ LegacyCycleResume(LikeInputs)
    \/ Reload

SpecLegacy == InitLegacy /\ [][NextLegacy]_vars

\* The step in which the end-of-feed branch of runAutomation runs
ResetStep == ~reloadTimer /\ reloadTimer'

\* C9: after a feed-exhaustion reset the processed-id set is empty and the seen,
\* liked and commented counters are zero, so that every tweet, those processed
\* before the reset included, passes the processed test of the next cycle.
C9_SessionReset ==
    [][ResetStep =>
          /\ processedTweets' = {}
          /\ totalTweets' = 0
          /\ processedLikes' = 0
          /\ processedComments' = 0]_vars

\* C9 witness: the reset has run and its reload is still pending; the cycle
\* after it has selected the first tweet, which the cycle that reset had passed
\* over, and has engaged it successfully: the like counter, zeroed by the reset,
\* counts it.
C9_Witness ==
    /\ reloadTimer
    /\ likedMarker = Tweets
    /\ \E c \in CycleIds :
          /\ cycles[c].pc = "engagePacing"
          /\ cycles[c].tweet = 1
          /\ cycles[c].actionTaken
          /\ \A o \in CycleIds \ {c} : cycles[o].pc = "idle"
    /\ \A d \in DrainIds : drains[d].pc = "idle"
    /\ processedLikes = 1
    /\ processedTweets = {}

(***************************************************************************)
(* The seen counter.                                                       *)
(***************************************************************************)
\* The engagements of the earlier script that have taken an action and are in
\* the delay that follows updateLastActionTime(): they return true
ReturningTrue ==
    {th \in {drains[d] : d \in DrainIds} \cup {cycles[c] : c \in CycleIds} :
        th.pc = "engagePacing" /\ th.actionTaken}

\* C20: an id is added to the processed set only when the engagement of its
\* tweet returns true, that is when its like or its comment succeeded; an
\* engagement that returns false leaves the processed set as it was.
C20_ProcessedOnSuccess ==
    [][\A id \in processedTweets' \ processedTweets :
          \E th \in ReturningTrue : legacyTweetId(Cur, th.tweet) = id]_vars

(***************************************************************************)
(* The processed set.                                                      *)
(***************************************************************************)
\* A cycle of the earlier script (past its processed test) or an invocation of
\* processTweets takes up tweet t in this step
LegacySelected(t) ==
    \/ \E c \in CycleIds :
          /\ cycles'[c] # cycles[c]
          /\ cycles'[c].pc = "loopScrollWait" /\ cycles'[c].tweet = t
    \/ \E d \in ObserverIds :
          /\ drains[d].pc = "idle"
          /\ drains'[d].pc = "scrollWait" /\ drains'[d].tweet = t

\* tweet.dataset.tweetId of t as the selecting loop read it
SelectedId(t) == IF t \in datasetIds' THEN t ELSE 0

\* setTimeout(() => window.location.reload(), 5000) of the reset fires in this step
ReloadStep == reloadTimer /\ ~reloadTimer'

\* The end-of-feed branch of a cycle runs in this step, a reload pending or not:
\* the cycle ends at the end of the document with the session reset
ExhaustionStep ==
    /\ scrollY = MaxScroll /\ scrollY' = scrollY
    /\ reloadTimer' /\ ~isRunning'
    /\ processedTweets' = {} /\ totalTweets' = 0
    /\ processedLikes' = 0 /\ processedComments' = 0

\* C21: an id that is in the processed set is never selected, by a scan or by
\* a cycle, of either script; an id leaves the processed set only in the
\* end-of-feed reset (its clear() or the reload it schedules), and neither
\* enabling, disabling nor a settings update removes one.
C21_ProcessedSet ==
    /\ [][\A t \in Tweets : LegacySelected(t) => SelectedId(t) \notin processedTweets]_vars
    /\ [][~(processedTweets \subseteq processedTweets') => (ExhaustionStep \/ ReloadStep)]_vars
    /\ [](\A t \in scanCandidates(Cur) \cup cycleCandidates(Cur) : t \notin processedTweets)
    /\ [](\A enabled \in BOOLEAN :
             /\ legacyToggleAutomation(Cur, enabled).processedTweets = processedTweets
             /\ toggleAutomation(Cur, enabled).processedTweets = processedTweets)
    /\ [](\A new \in SettingsValues :
             settingsUpdated(Cur, new).processedTweets = processedTweets)

\* C21 witness: with tweet 1 in the processed set, a cycle has passed over it
\* and taken up tweet 2.
C21_Witness ==
    /\ 1 \in processedTweets
    /\ \E c \in CycleIds : cycles[c].pc = "loopScrollWait" /\ cycles[c].tweet = 2

(***************************************************************************)
(* The scroll fallback and the end of the feed.                            *)
(***************************************************************************)
\* The awaits of engageWithTweet (earlier script) that come before an action
LegacyEngageStages ==
    {"scrollWait", "likeRetry", "likeFocus", "likeVerify", "replyFocus", "composerWait"}

\* The cycle c calls smoothScroll() in this step and the scroll can advance
ScrollStarts(c) == cycles[c].pc # "scrollAnimation" /\ cycles'[c].pc = "scrollAnimation"

\* C27: a cycle calls the scroll fallback exactly when it found no unprocessed
\* tweet to engage: a cycle that scrolls on starting found every tweet
\* processed, and a cycle that has engaged a tweet, whatever the engagement
\* returned, does not scroll.
C27_ScrollFallback ==
    /\ [][\A c \in CycleIds :
            (cycles[c].pc = "idle" /\ ScrollStarts(c)) =>
                \A t \in Tweets : t \in processedTweets]_vars
    /\ [][\A c \in CycleIds :
            cycles[c].pc \in LegacyEngageStages => ~ScrollStarts(c)]_vars

\* The end-of-feed branch is seen to run in this step: the reload becomes
\* pending, or the processed set or a counter is cleared with a reload pending
ResetSeen ==
    /\ reloadTimer'
    /\ \/ ~reloadTimer
       \/ processedTweets # {} /\ processedTweets' = {}
       \/ processedLikes > 0 /\ processedLikes' = 0
       \/ totalTweets > 0 /\ totalTweets' = 0

\* C28: the end-of-feed reset runs only at the end of a cycle in which no
\* engagement succeeded, with the window already at the end of the document
\* (the scroll fallback cannot advance); where the scroll fallback can still
\* advance, it scrolls and the session is left as it is.
C28_Exhaustion ==
    /\ [][ResetSeen =>
            /\ scrollY = MaxScroll /\ scrollY' = scrollY
            /\ processedTweets' = {}
            /\ \E c \in CycleIds :
                  /\ cycles'[c].pc = "idle"
                  /\ cycles[c].pc # "engagePacing"
                  /\ \A o \in CycleIds \ {c} : cycles'[o] = cycles[o]]_vars
    /\ [](scrollY < MaxScroll =>
            \A c \in CycleIds :
                LET s == legacyScrollForMore(Cur, c)
                IN  /\ s.cycles[c].pc = "scrollAnimation"
                    /\ s.cycles[c].targetScroll > scrollY
                    /\ s.reloadTimer = reloadTimer
                    /\ s.processedTweets = processedTweets
                    /\ s.totalTweets = totalTweets
                    /\ s.processedLikes = processedLikes
                    /\ s.processedComments = processedComments)

\* C28 witness: a cycle that found every tweet processed, with the window at
\* the end of the document, has reset the session; the reload is pending.
C28_Witness ==
    /\ reloadTimer /\ scrollY = MaxScroll
    /\ processedTweets = {} /\ totalTweets = 0 /\ processedLikes = 0
    /\ likedMarker # {}
    /\ \A c \in CycleIds : cycles[c].pc = "idle"

(***************************************************************************)
(* SpecCycleLive: the cycles alone, with statements that may throw.  Every *)
(* await of a cycle is a delay(), a timer that fires: a suspended cycle is *)
(* eventually resumed.                                                     *)
(***************************************************************************)
NextCycleLive ==
    \/ AutomationToggle
    \/ SettingsUpdated(LikeSettings)
    \/ IntervalTick(LikeInputs)
    \/ StartTimerFire(LikeInputs)
    \/ \E c \in CycleIds : CycleResumeOf(c, LikeInputs)
    \/ \E c \in CycleIds : CycleThrowsOf(c, LikeInputs)

SpecCycleLive ==
    /\ Init
    /\ [][NextCycleLive]_vars
    /\ \A c \in CycleIds :
          WF_vars(CycleResumeOf(c, LikeInputs) \/ CycleThrowsOf(c, LikeInputs))

\* C16: a cycle that has set isRunning and is suspended eventually reaches its
\* finally block, whether its engagement succeeds, fails or throws; the step
\* in which it ends leaves isRunning false, and while automation is enabled
\* the interval stays set, so that a later tick, isRunning being false, passes
\* the guard of runAutomation.
C16_CycleEnds ==
    /\ \A c \in CycleIds : (cycles[c].pc # "idle") ~> (cycles[c].pc = "idle")
    /\ [][\A c \in CycleIds :
             (cycles[c].pc # "idle" /\ cycles'[c].pc = "idle") => ~isRunning']_vars
    /\ [](automationEnabled => automationInterval)
    /\ []((automationInterval /\ ~isRunning) => cycleGuard(Cur))

\* A cycle has run and ended without an action: nothing is processed, isRunning
\* is false again and the interval is still set
C16_Witness ==
    /\ automationEnabled /\ automationInterval /\ ~isRunning
    /\ totalTweets = NumTweets /\ processedTweets = {}
    /\ startTimers = 0
    /\ \A c \in CycleIds : cycles[c].pc = "idle"

(***************************************************************************)
(* SpecComment: the cycles with commenting on and liking off, the          *)
(* coordinator and the tab's reply handlers; automation, once enabled,     *)
(* stays on and the clock stands still.                                    *)
(***************************************************************************)
CommentSettings == {v \in SettingsValues : v.enableCommenting /\ ~v.enableLiking}

CommentInputs ==
    {i \in Inputs : ~i.hasLike /\ ~i.likeApplied /\ i.textElement = "text"}

\* The fetch succeeds or times out; the answer has a content or none
FewApiInputs ==
    {a \in ApiInputs : /\ a.pick = 1
                       /\ a.outcome \in {"ok", "timeout"}
                       /\ a.content \in {NoContent, QuotedContent}}

InitComment == InitWith(CommentSettings)

NextComment ==
    \/ SettingsUpdated({v \in CommentSettings : v.automationEnabled})
    \/ IntervalTick(CommentInputs)
    \/ StartTimerFire(CommentInputs)
    \/ CycleResume(CommentInputs)
    \/ CoordinatorReceive
    \/ ApiResume(FewApiInputs)
    \/ TabReceive(ReplyInputs)
    \/ ReplyResume(ReplyInputs)

SpecComment == InitComment /\ [][NextComment]_vars

\* The generation exchanges in flight: requests sent and not yet taken by the
\* coordinator, queued or being processed there, and replies or errors not yet
\* delivered to the tab or whose handler has not finished
InFlight ==
    Len(outbox) + Len(rateLimitQueue)
  + (IF apiWorker.pc \in {"storage", "fetch", "json", "errorText"} THEN 1 ELSE 0)
  + Len(inbox)
  + Cardinality({r \in ReplyIds : replyRuns[r].pc # "idle"})

\* C12: at most one comment-generation exchange is in flight at any time.
C12_SingleExchange == InFlight <= 1

\* commentOnPostFast(tweet) from its entry, in an engagement that has taken no
\* action yet, with the page's answers inp: up to its first await or its return
CommentEntry(t, inp) == commentStep(Cur, [IdleThread EXCEPT !.tweet = t], inp)

\* The request commentOnPostFast sends for the text it extracted
RequestFor(text) == [type |-> "groqApiRequest", prompt |-> TweetText(text)]

\* C22: commentOnPostFast returns false, the reply button not clicked and no
\* request sent, when the tweet's text is empty; when there is a text and a
\* reply button it clicks the button, sends one groqApiRequest carrying the
\* text and returns true (the engagement marks the tweet processed), the
\* comment counter unchanged; the counter changes only by one, in the step of
\* handleGroqResponse that found the submit button and clicked it.
C22_Comment ==
    /\ [](settings.enableCommenting =>
            \A t \in Tweets, inp \in {i \in Inputs : i.gate} :
                LET text == getTweetTextFast(Cur, t, inp.textElement).text
                    r == CommentEntry(t, inp)
                IN  /\ text = EmptyText =>
                          /\ r.th.pc = "ret" /\ ~r.th.actionTaken
                          /\ r.s.composerOpen = composerOpen
                          /\ r.s.outbox = outbox
                          /\ r.s.processedComments = processedComments
                          /\ r.s.processedTweets = processedTweets
                    /\ (text # EmptyText /\ inp.hasReply) =>
                          /\ r.th.pc = "replyFocus" /\ r.th.text = text
                          /\ r.s.outbox = outbox
                          /\ r.s.processedComments = processedComments)
    /\ [][\A c \in CycleIds :
            (cycles[c].pc = "replyFocus" /\ cycles'[c] # cycles[c]) =>
                /\ cycles'[c].pc = "composerWait"
                /\ composerOpen' = cycles[c].tweet
                /\ outbox' = outbox
                /\ processedComments' = processedComments]_vars
    /\ [][\A c \in CycleIds :
            (cycles[c].pc = "composerWait" /\ cycles'[c] # cycles[c]) =>
                /\ outbox' = Append(outbox, RequestFor(cycles[c].text))
                /\ cycles[c].tweet \in processedTweets'
                /\ processedComments' = processedComments]_vars
    /\ [][processedComments' # processedComments =>
            /\ processedComments' = processedComments + 1
            /\ \E r \in ReplyIds :
                  replyRuns[r].pc = "submitWait" /\ replyRuns'[r].pc = "postWait"]_vars

\* C22 witness: the comment on tweet 1 has sent its request and returned true
\* with the counter at zero, and the handler of the reply has since clicked the
\* submit button and counted the comment.
C22_Witness ==
    /\ currentTweetForComment = 1 /\ 1 \in processedTweets
    /\ processedComments = 1
    /\ \E r \in ReplyIds : replyRuns[r].pc = "postWait"

\* The handler r of a reply ends in this step without a submit button clicked
SubmitNotFound(r) ==
    /\ replyRuns[r].pc = "submitWait"
    /\ replyRuns'[r] # replyRuns[r]
    /\ replyRuns'[r].pc # "postWait"

\* The tab takes a groqApiError message in this step
ErrorArrives ==
    /\ Len(inbox) > 0 /\ Head(inbox).type = "groqApiError"
    /\ inbox' = Tail(inbox)

\* handleCommentError() is entered by the invocation r in this step
RecoveryRuns(r) == replyRuns'[r].pc = "escapeWait" /\ replyRuns[r].pc # "escapeWait"

\* C23: when handleGroqResponse finds no submit button, and when a groqApiError
\* message arrives, handleCommentError runs (the Escape event is dispatched to
\* dismiss the composer); in both cases the comment counter stays as it is and
\* no request and no action is queued again for the comment.
C23_Recovery ==
    /\ [][\A r \in ReplyIds : SubmitNotFound(r) =>
            /\ RecoveryRuns(r)
            /\ processedComments' = processedComments
            /\ outbox' = outbox /\ actionQueue' = actionQueue]_vars
    /\ [][ErrorArrives =>
            /\ \E r \in ReplyIds : RecoveryRuns(r)
            /\ processedComments' = processedComments
            /\ outbox' = outbox /\ actionQueue' = actionQueue]_vars

(***************************************************************************)
(* SpecLateReply: as SpecComment, with an automationToggle message that    *)
(* disables automation, no message enabling it after that, and the         *)
(* coordinator's messages reaching the tab only while automation is        *)
(* disabled.  Every engagement comments, no API key is configured and the  *)
(* page ignores the Escape event.                                          *)
(***************************************************************************)
LateInputs == {i \in CommentInputs : i.gate /\ i.hasReply}

LateApiInputs ==
    {a \in FewApiInputs : ~a.hasKey /\ a.outcome = "ok" /\ a.content = NoContent}

LateReplyInputs == {i \in ReplyInputs : ~i.dismissed}

\* The tab receives a message of the coordinator while automation is disabled
LateTabReceive(R) == ~automationEnabled /\ TabReceive(R)

\* chrome.runtime.onMessage: 'automationToggle' with enabled = false
AutomationDisable == Step(toggleAutomation(Cur, FALSE))

\* A settingsUpdated message before stopAutomation has run
SettingsBeforeStop(V) == pageVisibilityInterval /\ SettingsUpdated(V)

NextLateReply ==
    \/ AutomationDisable
    \/ SettingsBeforeStop({v \in CommentSettings : v.automationEnabled})
    \/ IntervalTick(LateInputs)
    \/ StartTimerFire(LateInputs)
    \/ CycleResume(LateInputs)
    \/ CoordinatorReceive
    \/ ApiResume(LateApiInputs)
    \/ LateTabReceive(LateReplyInputs)
    \/ ReplyResume(LateReplyInputs)

SpecLateReply == InitComment /\ [][NextLateReply]_vars

\* C13: a handler of a reply that arrived while automation was disabled
\* inserts no text into the composer and does not raise the comment counter
\* (it clicks no submit button) in any step taken while automation is disabled.
C13_LateReplyDiscarded ==
    [][(~automationEnabled /\ ~automationEnabled') =>
          /\ processedComments' = processedComments
          /\ composerText' \in {composerText, <<>>}]_vars

\* C11: the seen counter totalTweets is the number of articles the last full
\* scan (runAutomation's listing) found, 0 before the first one; a step changes
\* it only by setting it to that number, so an engagement does not change it.
C11_SeenCounter ==
    /\ [](totalTweets \in {0, NumTweets})
    /\ [][totalTweets' # totalTweets => totalTweets' = NumTweets]_vars

\* C14: while automation is disabled the periodic timer is cleared, and a
\* pending delayed start (runAutomation) or an armed debounce timer
\* (processTweetsQuickly) that fires begins nothing: it leaves the state as it
\* was.  A mutation batch or a visibility change arms no timer until the next
\* enable.
C14_DisableCancels ==
    /\ [](~automationEnabled =>
            /\ ~automationInterval
            /\ \A inp \in Inputs :
                  /\ runAutomation(Cur, inp) = Cur
                  /\ processTweetsQuickly(Cur, inp) = Cur)
    /\ [][(~automationEnabled /\ ~automationEnabled') =>
            /\ (debounceTimer' => debounceTimer)
            /\ startTimers' <= startTimers
            /\ (isRunning' => isRunning)]_vars

\* Disabled by stopAutomation with the debounce timer armed and the delayed
\* initial start still pending
C14_Witness ==
    /\ ~automationEnabled /\ ~pageVisibilityInterval
    /\ debounceTimer /\ startTimers > 0

\* C15: enable and disable are idempotent.  A second toggleAutomation(true)
\* leaves the interval set and schedules no second delayed start; a second
\* toggleAutomation(false) leaves the state of the first, with no interval
\* and isRunning false.
C15_Idempotent ==
    \A enabled \in BOOLEAN :
        LET once == toggleAutomation(Cur, enabled)
            twice == toggleAutomation(once, enabled)
        IN  /\ twice = once
            /\ once.automationEnabled = enabled
            /\ once.automationInterval = enabled
            /\ ~enabled => ~once.isRunning
            /\ (enabled /\ automationEnabled) => once = Cur
            /\ (~enabled /\ ~automationEnabled /\ ~isRunning /\ ~pageVisibilityInterval)
                   => once = Cur

\* Enabled, the delayed initial start of the first enable still pending
C15_Witness ==
    /\ automationEnabled /\ automationInterval /\ startTimers = 1
    /\ toggleAutomation(Cur, TRUE) = Cur

\* C24: while a cycle is running (a runAutomation invocation has started and
\* has not reached its finally block) no mutation batch arms the debounce
\* timer, and nothing is added to the action queue.
C24_BatchIgnored ==
    [][ActiveCycles # {} =>
          /\ debounceTimer' => debounceTimer
          /\ Len(actionQueue') <= Len(actionQueue)]_vars

\* C26: a scan that finds candidates (tweets not in the processed set whose
\* rectangle intersects the viewport) selects the first of them in DOM order
\* and nothing else: one entry for it is appended to the queue, or, no drain
\* being active, a drain is started on it; the candidates after it are not
\* queued.  A scan without candidates queues nothing and starts no drain.
C26_OnePerScan ==
    [][ScanRuns =>
          /\ Len(actionQueue') <= Len(actionQueue) + 1
          /\ IF scanCandidates(Cur) = {}
             THEN actionQueue' = actionQueue /\ drains' = drains
             ELSE ScanSelected(First(scanCandidates(Cur)))]_vars

\* C26 witness: a scan that ran behind an active drain has left one entry, for
\* the first candidate, though a second tweet is unprocessed and visible too.
C26_Witness ==
    /\ isProcessingQueue /\ ~debounceTimer
    /\ Cardinality(scanCandidates(Cur)) >= 2
    /\ Len(actionQueue) = 1
    /\ actionQueue[1].tweetId = First(scanCandidates(Cur))

(***************************************************************************)
(* SpecSettings: the cycle path with liking and commenting switched on and *)
(* off by settingsUpdated messages; automation, once enabled, stays on and *)
(* the page applies every like that is clicked.                            *)
(***************************************************************************)
OnSettings == {v \in SettingsValues : v.automationEnabled}

AppliedInputs == {i \in Inputs : i.likeApplied}

InitSettings == InitWith(SettingsValues)

NextSettings ==
    \/ SettingsUpdated(OnSettings)
    \/ StartTimerFire(AppliedInputs)
    \/ IntervalTick(AppliedInputs)
    \/ CycleResume(AppliedInputs)

SpecSettings == InitSettings /\ [][NextSettings]_vars

\* What an engagement that reaches its like/comment decisions in state s with
\* the page's answers inp, and has run to r, owes to the settings in s
UsesSettings(s, r, inp) ==
    /\ ~s.settings.enableLiking =>
          /\ r.th.pc # "likeFocus"
          /\ r.s.processedLikes = s.processedLikes
    /\ (s.settings.enableLiking /\ inp.hasLike) =>
          \/ r.th.pc = "likeFocus"
          \/ r.s.processedLikes = s.processedLikes + 1
    /\ ~s.settings.enableCommenting =>
          /\ r.th.pc # "replyFocus"
          /\ r.s.tweetCache = s.tweetCache
    /\ (s.settings.enableCommenting /\ inp.gate /\ inp.hasReply
            /\ getTweetTextFast(s, r.th.tweet, inp.textElement).text # EmptyText
            /\ r.th.pc # "likeFocus") =>
          r.th.pc = "replyFocus"

\* C18: a settingsUpdated message stores the received settings and toggles
\* automation exactly when the received automationEnabled differs from the
\* current one, so that afterwards automationEnabled is the received value;
\* an engagement that starts after the message, or resumes from its scroll
\* wait, decides on liking and commenting by the received values.
C18_SettingsApplied ==
    \A new \in SettingsValues :
        LET s1 == settingsUpdated(Cur, new)
            stored == [Cur EXCEPT !.settings = new]
        IN  /\ s1.settings = new
            /\ s1.automationEnabled = new.automationEnabled
            /\ s1 = IF new.automationEnabled = automationEnabled
                    THEN stored
                    ELSE toggleAutomation(stored, new.automationEnabled)
            /\ new.automationEnabled = automationEnabled =>
                  \A t \in Tweets, inp \in Inputs :
                      UsesSettings(s1,
                          IF RectBottom(s1, t) <= ViewH
                          THEN engageWithTweetFast(s1, t, inp)
                          ELSE engageResume(s1, [IdleThread EXCEPT !.tweet = t,
                                                     !.pc = "scrollWait"], inp),
                          inp)

\* Automation enabled by a settingsUpdated message that switched liking on,
\* and a cycle's engagement suspended in likePostFast
C18_Witness ==
    /\ settings.automationEnabled /\ automationEnabled /\ settings.enableLiking
    /\ \E c \in CycleIds : cycles[c].pc = "likeFocus"

(***************************************************************************)
(* SpecNoReply: SpecSettings with a coordinator that never answers, so     *)
(* that no message reaches the tab.  The awaits of the content script are  *)
(* timers and its cycles are started by timers, all of which fire.         *)
(***************************************************************************)
NextNoReply ==
    \/ SettingsUpdated(OnSettings)
    \/ IntervalTick(AppliedInputs)
    \/ StartTimerFire(AppliedInputs)
    \/ \E c \in CycleIds : CycleResumeOf(c, AppliedInputs)

SpecNoReply ==
    /\ InitSettings
    /\ [][NextNoReply]_vars
    /\ WF_vars(IntervalTick(AppliedInputs))
    /\ WF_vars(StartTimerFire(AppliedInputs))
    /\ \A c \in CycleIds : WF_vars(CycleResumeOf(c, AppliedInputs))

\* commentOnPostFast has sent its request and stored the tweet it is for
AwaitingGeneration == currentTweetForComment # 0

\* The composer is dismissed and the pending tweet is cleared
Recovered == currentTweetForComment = 0 /\ composerOpen = 0

\* C17: a comment attempt whose generation request gets no reply and no error
\* does not wait for ever: it eventually recovers, the composer dismissed and
\* the pending tweet cleared.
C17_NoHang == AwaitingGeneration ~> Recovered

(***************************************************************************)
(* SpecOlder: SpecComment with the older coordinator, whose fetch has no   *)
(* timeout: it succeeds or the service answers with an error status.       *)
(***************************************************************************)
OlderApiInputs ==
    {a \in ApiInputs : /\ a.pick = 1
                       /\ a.outcome \in {"ok", "notOk"}
                       /\ a.content \in {NoContent, QuotedContent}}

NextOlder ==
    \/ SettingsUpdated({v \in CommentSettings : v.automationEnabled})
    \/ IntervalTick(CommentInputs)
    \/ StartTimerFire(CommentInputs)
    \/ CycleResume(CommentInputs)
    \/ OlderCoordinatorReceive
    \/ OlderApiResume(OlderApiInputs)
    \/ TabReceive(ReplyInputs)
    \/ ReplyResume(ReplyInputs)

SpecOlder == InitComment /\ [][NextOlder]_vars

\* C19: whatever happens to a generation request (no API key, a failed or
\* timed-out fetch, an answer without content), the coordinator sends the tab
\* a groqApiResponse, never a groqApiError.
C19_AlwaysReply ==
    \A i \in 1..Len(inbox) : inbox[i].type = "groqApiResponse"

(***************************************************************************)
(* SpecDebounce: the observer, the scans, the drain and the cycles with    *)
(* the clock running in steps of TickMs; a timer callback runs at its due  *)
(* time or later.  Liking is on and automation, once enabled, stays on.    *)
(***************************************************************************)
TimerInstants == {k * TickMs : k \in 0..MaxTicks}

\* Time passes
TimerTick ==
    \E t \in TimerInstants : t > now /\ Step([Cur EXCEPT !.now = t])

\* The debounce callbacks that are due
DebounceDue == {due \in debounceDues : due <= now}

NextDebounce ==
    \/ SettingsUpdated({v \in StaleSettings : v.automationEnabled})
    \/ MutationBatchOf(BOOLEAN)
    \/ DebounceFireAt(LikeInputs, DebounceDue)
    \/ IntervalTick(LikeInputs)
    \/ StartTimerFire(LikeInputs)
    \/ DrainResume(LikeInputs)
    \/ CycleResume(LikeInputs)
    \/ TimerTick

SpecDebounce == InitStale /\ [][NextDebounce]_vars

\* The observer callback gets past `if (isRunning || !automationEnabled) return`
BatchHeeded == automationEnabled /\ ~isRunning

PacingInstants ==
    {0, DebounceMs, DebounceMs + pacingDelay - 1, DebounceMs + pacingDelay,
     DebounceMs + pacingDelay + StaleMs}

\* Time passes
PacingClock ==
    \E t \in PacingInstants : t > now /\ Step([Cur EXCEPT !.now = t])

NextPacing ==
    \/ SettingsUpdated({v \in StaleSettings : v.automationEnabled})
    \/ MutationBatchOf(BOOLEAN)
    \/ DebounceFireAt(LikeInputs, DebounceDue)
    \/ IntervalTick(LikeInputs)
    \/ StartTimerFire(LikeInputs)
    \/ DrainResumeDue(LikeInputs)
    \/ CycleResume(LikeInputs)
    \/ PacingClock

SpecPacing == InitStale /\ [][NextPacing]_vars

\* The drain loop d hands an entry to the engine in this step
Dispatches(d) ==
    /\ drains'[d] # drains[d]
    /\ Len(actionQueue') < Len(actionQueue) \/ drains[d].pc = "idle"
    /\ drains'[d].pc \in EngageStages \cup {"pacing"}

\* C30: when an engagement started by the drain loop returns, the loop waits
\* the pacing delay, 2000 ms (fastMode is true), counted from that moment; it
\* takes the next entry, and so dispatches again, only when that delay is over;
\* a stale entry is dropped and the loop goes on to the next entry, or ends,
\* in the same task, without a delay.
C30_Pacing ==
    /\ pacingDelay = PacingFastMs
    /\ [][\A d \in DrainIds :
            (drains'[d] # drains[d] /\ drains'[d].pc = "pacing") =>
                /\ now' = now
                /\ drains'[d].wake = now + PacingFastMs]_vars
    /\ [][\A d \in DrainIds :
            (drains[d].pc # "idle" /\ Dispatches(d)) =>
                /\ drains[d].pc = "pacing"
                /\ now >= drains[d].wake]_vars
    /\ [][(PopsHead /\ HeadAge > StaleMs) => (now' = now /\ HeadDiscarded)]_vars

\* C30 witness: the drain loop has dispatched a second entry: the engagement
\* before it returned at DebounceMs, the pacing delay was over 2000 ms later,
\* and the engagement of the second entry has returned in its turn.
C30_Witness ==
    /\ \E d \in DrainIds :
          drains[d].pc = "pacing" /\ drains[d].wake = DebounceMs + 2 * PacingFastMs
    /\ Cardinality(processedTweets) >= 2

\* The drain loop, its pacing delay over, is about to take a stale entry.
C30_StaleWitness ==
    /\ \E d \in DrainIds : drains[d].pc = "pacing" /\ drains[d].wake <= now
    /\ Len(actionQueue) > 0
    /\ now - Head(actionQueue).timestamp > StaleMs


(***************************************************************************)
(* SpecDrainLive: the scans and the drain loop alone, with statements that *)
(* may throw and a clock that makes queued entries stale.  Every await of  *)
(* the drain loop is a delay(), a timer that fires: a suspended drain is   *)
(* eventually resumed.                                                     *)
(***************************************************************************)
\* Mutant of drainThrow: the exception leaves engageWithTweetFast and ends the
\* drain loop before `isProcessingQueue = false`.
drainThrowEscapes(s, d, inp) == [s EXCEPT !.drains[d] = IdleThread]

\* The drain loop d resumes in its engagement and the first statement throws:
\* a catch inside engageWithTweetFast takes it and the loop goes on
drainThrow(s, d, inp) ==
    LET r == engageThrow(s, s.drains[d], inp)
    IN  drainAfterEngage(r.s, d, r.th)

\* The drain loop d resumes after the await it is suspended at
DrainResumeOf(d, I) ==
    \E inp \in I :
        /\ drains[d].pc # "idle"
        /\ Step(drainResume(Cur, d, inp))

\* The drain loop d resumes in its engagement and the first statement throws
DrainThrowsOf(d, I) ==
    \E inp \in I :
        /\ drains[d].pc \in EngageStages
        /\ Step(drainThrow(Cur, d, inp))

\* Time passes, to an instant at which every entry queued before is stale
DrainInstants == {0, StaleMs + 1}

DrainClock ==
    \E t \in DrainInstants : t > now /\ Step([Cur EXCEPT !.now = t])

NextDrainLive ==
    \/ AutomationToggle
    \/ SettingsUpdated(StaleSettings)
    \/ MutationBatch
    \/ DebounceFire(LikeInputs)
    \/ \E d \in DrainIds : DrainResumeOf(d, LikeInputs)
    \/ \E d \in DrainIds : DrainThrowsOf(d, LikeInputs)
    \/ DrainClock

SpecDrainLive ==
    /\ InitStale
    /\ [][NextDrainLive]_vars
    /\ \A d \in DrainIds :
          WF_vars(DrainResumeOf(d, LikeInputs) \/ DrainThrowsOf(d, LikeInputs))

\* A scan appends an entry to the queue in this step
Enqueues == Len(actionQueue') > Len(actionQueue)

\* The drain loop d has left its while loop
DrainEnded(d) ==
    drains[d].pc = "idle" /\ actionQueue = <<>> /\ ~isProcessingQueue

\* C31: unless entries keep being appended for ever, every started drain
\* eventually ends, with the queue empty and isProcessingQueue false, whether
\* its engagements succeed, return false or throw; the step in which a drain
\* ends is the one that finds the queue empty and lowers the flag; and
\* isProcessingQueue is true only while a drain loop is active.
C31_DrainEnds ==
    /\ \A d \in DrainIds :
          \/ []<><<Enqueues>>_vars
          \/ (drains[d].pc # "idle") ~> DrainEnded(d)
    /\ [][\A d \in DrainIds :
             (drains[d].pc # "idle" /\ drains'[d].pc = "idle")
                 => (actionQueue' = <<>> /\ ~isProcessingQueue')]_vars
    /\ [](isProcessingQueue => ActiveDrains # {})

\* C31 witness: a drain has ended whose engagement threw after the like had
\* shown (the marker is there, nothing is counted or processed); the queue is
\* empty and the flag is down.
C31_Witness ==
    /\ likedMarker # {} /\ processedLikes = 0 /\ processedTweets = {}
    /\ actionQueue = <<>> /\ ~isProcessingQueue
    /\ ActiveDrains = {}


(***************************************************************************)
(* SpecLike: the cycle path with liking on and commenting on or off; the   *)
(* page shows the marker after a click or does not, and has the like       *)
(* button or not.  Automation, once enabled, stays on.                     *)
(***************************************************************************)
LikingSettings == {v \in SettingsValues : v.enableLiking}

InitLike == InitWith(LikingSettings)

NextLike ==
    \/ SettingsUpdated({v \in LikingSettings : v.automationEnabled})
    \/ StartTimerFire(Inputs)
    \/ IntervalTick(Inputs)
    \/ CycleResume(Inputs)

SpecLike == InitLike /\ [][NextLike]_vars

\* commentOnPostFast gets past its two early returns
CommentDue(s, t, inp) ==
    /\ s.settings.enableCommenting /\ inp.gate /\ inp.hasReply
    /\ getTweetTextFast(s, t, inp.textElement).text # EmptyText

\* What an engagement of an item owes, likePostFast having returned `liked` in
\* state s and the engagement having run on to r: the counter is raised iff
\* liked, no further click is to come, and the comment step has been taken,
\* suspended in commentOnPostFast or returned from
LikeReturned(s, r, inp, liked) ==
    /\ r.s.processedLikes = s.processedLikes + (IF liked THEN 1 ELSE 0)
    /\ r.s.likedMarker = s.likedMarker
    /\ r.th.pc \in {"replyFocus", "ret"}
    /\ r.th.pc = "replyFocus" <=> CommentDue(s, r.th.tweet, inp)
    /\ r.th.actionTaken = liked
    /\ r.th.pc = "ret" =>
          r.s.processedTweets =
              s.processedTweets \cup (IF liked THEN {r.th.tweet} ELSE {})

\* The like of an item without the marker, as the engagement runs it
C32_LikeInv ==
    /\ \A t \in Tweets \ likedMarker, inp \in Inputs :
          RectBottom(Cur, t) <= ViewH =>
              LET r == engageWithTweetFast(Cur, t, inp)
              IN  IF inp.hasLike
                  THEN /\ r.th.pc = "likeFocus"
                       /\ r.s.processedLikes = processedLikes
                       /\ r.s.likedMarker = likedMarker
                  ELSE LikeReturned(Cur, r, inp, FALSE)
    /\ \A c \in CycleIds, inp \in Inputs :
          LET th == cycles[c]
              r == engageResume(Cur, th, inp)
          IN  /\ th.pc = "likeFocus" =>
                    /\ r.th.pc = "likeVerify"
                    /\ r.s.processedLikes = processedLikes
                    /\ r.s.likedMarker \subseteq likedMarker \cup {th.tweet}
              /\ th.pc = "likeVerify" =>
                    LikeReturned(Cur, r, inp, th.tweet \in likedMarker)

\* C32: the like of an item without the liked marker clicks once and returns
\* true iff the marker is there after the verification delay, in which case
\* alone the counter is raised; when the marker does not appear or the like
\* button is absent it returns false, the counter is unchanged, and in every
\* case the engagement goes on to the comment step.
C32_Like ==
    /\ []C32_LikeInv
    /\ [][\A c \in CycleIds :
             (cycles[c].pc = "likeVerify" /\ cycles'[c] # cycles[c])
                 => /\ processedLikes' = processedLikes
                           + (IF cycles[c].tweet \in likedMarker THEN 1 ELSE 0)
                    /\ cycles'[c].pc \in {"replyFocus", "idle"}]_vars

\* C32 witness: the like button of an item was clicked, the verification delay
\* is running and the marker has not shown; commenting is on
C32_Witness ==
    /\ settings.enableCommenting
    /\ \E c \in CycleIds :
          /\ cycles[c].pc = "likeVerify"
          /\ cycles[c].tweet \notin likedMarker
          /\ cycles[c].tweet \notin processedTweets


(***************************************************************************)
(* The retry of the like-button lookup (SpecLegacy: likePost of the        *)
(* earlier script; likePostFast looks the button up once).                 *)
(***************************************************************************)
\* The engagements of the earlier script waiting in the retry delay of likePost
Retrying ==
    {th \in {cycles[c] : c \in CycleIds} \cup {drains[d] : d \in DrainIds} :
        th.pc = "likeRetry"}

\* C33: a like whose button lookup failed looks the button up once more after
\* the delay and not again; when the retry finds the button the like proceeds
\* with it (an item not yet liked is about to be clicked); when it fails again
\* the like returns false, nothing is counted, and the engagement goes on to
\* its comment step.
C33_LikeRetry ==
    \A th \in Retrying, inp \in LikeInputs :
        LET r == legacyEngageResume(Cur, th, inp)
        IN  /\ r.th.pc # "likeRetry"
            /\ (inp.hasLike /\ th.tweet \notin likedMarker) =>
                  r.th.pc = "likeFocus"
            /\ ~inp.hasLike =>
                  /\ r.s.processedLikes = processedLikes
                  /\ r = legacyCommentStep(Cur, th, inp)


(***************************************************************************)
(* The coordinator's cache hit (SpecComment).                              *)
(***************************************************************************)
\* The coordinator takes the request at the head of the outbox in this step
RequestTaken == Len(outbox) > 0 /\ outbox' = Tail(outbox)

\* The cache holds an entry for the fingerprint of the prompt
Cached(prompt) == MapHas(apiCache, cacheKeyOf(prompt))

\* C34: when the cache holds an entry for the lowercased first 50 characters
\* of a request's prompt, the coordinator sends the cached reply to the tab
\* and does nothing else: the request is not queued, no request handler is
\* started (so no call of the service is made for it) and the cache is as it
\* was.
C34_CacheHit ==
    [][(RequestTaken /\ Cached(Head(outbox).prompt)) =>
          /\ inbox' = Append(inbox,
                 [type |-> "groqApiResponse",
                  data |-> MapGet(apiCache, cacheKeyOf(Head(outbox).prompt))])
          /\ rateLimitQueue' = rateLimitQueue
          /\ apiWorker' = apiWorker
          /\ apiProcessing' = apiProcessing
          /\ apiCache' = apiCache]_vars

\* C34 witness: the request for tweet 2, whose text differs from that of
\* tweet 1 by its case only, has been taken; the reply on its way to the tab
\* is the entry the cache holds under their common fingerprint, nothing is
\* queued and no request handler runs.
C34_Witness ==
    /\ currentTweetForComment = 2
    /\ TweetText(2) # TweetText(1)
    /\ cacheKeyOf(TweetText(2)) = cacheKeyOf(TweetText(1))
    /\ Cached(TweetText(2))
    /\ inbox = <<[type |-> "groqApiResponse",
                  data |-> MapGet(apiCache, cacheKeyOf(TweetText(2)))]>>
    /\ outbox = <<>> /\ rateLimitQueue = <<>>
    /\ apiWorker = IdleWorker /\ ~apiProcessing


(***************************************************************************)
(* SpecReply: SpecComment with a service that always answers, with every   *)
(* kind of content: none, one to be cleaned, one too short and one too     *)
(* long; on the page the composer's field has lost the focus and no submit *)
(* button is found.                                                        *)
(***************************************************************************)
UnfocusedInputs ==
    {i \in ReplyInputs : ~i.editable /\ ~i.hasSubmit /\ ~i.dismissed}

AnsweredApiInputs ==
    {a \in ApiInputs : /\ a.hasKey /\ a.outcome = "ok"
                       /\ a.pick \in {1, NumFallbacks}}

NextReply ==
    \/ SettingsUpdated({v \in CommentSettings : v.automationEnabled})
    \/ IntervalTick(CommentInputs)
    \/ StartTimerFire(CommentInputs)
    \/ CycleResume(CommentInputs)
    \/ CoordinatorReceive
    \/ ApiResume(AnsweredApiInputs)
    \/ TabReceive(UnfocusedInputs)
    \/ ReplyResume(UnfocusedInputs)

SpecReply == InitComment /\ [][NextReply]_vars

\* No more than 150 characters, none of them a double quote or a newline
CleanReply(str) ==
    /\ Len(str) <= ReplyMax
    /\ \A i \in 1..Len(str) : str[i] # "\"" /\ str[i] # "\n"

\* C35: every reply the coordinator sends to the tab once the service has
\* answered (the cleaned content, cut to 150 characters, or the fallback
\* phrase that replaces a content shorter than 3) has at most 150 characters
\* and holds no double quote and no newline; so has every reply on its way
\* to the tab and every reply the cache keeps.
C35_ReplyBounded ==
    /\ \A pick \in 1..NumFallbacks :
          CleanReply(cleanResponseOf(ShortContent, pick))
    /\ \A i \in 1..Len(inbox) : CleanReply(inbox[i].data)
    /\ \A i \in 1..Len(apiCache) : CleanReply(apiCache[i].value)

\* C35 witness: a content longer than 150 characters was cut: the reply on
\* its way to the tab has exactly 150 characters, the last three of them dots
C35_Witness ==
    /\ Len(inbox) = 1
    /\ Len(inbox[1].data) = ReplyMax
    /\ SubSeq(inbox[1].data, ReplyKept + 1, ReplyMax) = <<".", ".", ".">>
    /\ inbox[1].data[ReplyKept] = "a"
    /\ apiWorker.pc = "rateDelay"


(***************************************************************************)
(* The drain loop while automation is disabled (Spec).                     *)
(***************************************************************************)
\* C36: while automation is disabled no engagement is started: a drain loop
\* that is suspended in an engagement or in its pacing delay, when it resumes,
\* hands none of the entries still in the queue to the engine.
C36_NoDispatchDisabled ==
    [][~automationEnabled =>
          \A d \in DrainIds : drains[d].pc # "idle" => ~Dispatches(d)]_vars


(***************************************************************************)
(* The composer a reply is typed into (SpecComment: liking is off, so the  *)
(* processed tweets are those a generation request has been sent for).     *)
(***************************************************************************)
\* The reply handler r types its reply into the open composer in this step
Inserts(r) ==
    /\ replyRuns[r].pc = "insertWait"
    /\ replyRuns'[r].pc = "submitWait"
    /\ composerText' # composerText

\* C37: a reply is typed only into the composer opened for the item whose
\* text was the prompt of the reply's request; in particular it is not typed
\* into the composer of an item for which no request has been sent yet.
C37_RightComposer ==
    [][\A r \in ReplyIds : Inserts(r) => composerOpen \in processedTweets]_vars


(***************************************************************************)
(* The cycle after an engagement without an action (SpecLike).             *)
(***************************************************************************)
\* The cycle c ends in this step, its engagement having returned false
EndsWithoutAction(c) ==
    /\ cycles[c].pc \in EngageStages
    /\ cycles'[c].pc = "idle"
    /\ cycles[c].tweet \notin processedTweets'

\* The cycle c starts in this step and is suspended in the engagement of the
\* item it selected
Selects(c) == cycles[c].pc = "idle" /\ cycles'[c].pc \in EngageStages

\* A cycle that starts now and whose engagement returns false without a wait
\* leaves everything as it was, but for the count of rendered tweets
C38_ImmediateFalse ==
    \A inp \in Inputs :
        (cycleGuard(Cur) /\ cycleCandidates(Cur) # {}) =>
            LET t == First(cycleCandidates(Cur))
                s1 == [Cur EXCEPT !.isRunning = TRUE, !.totalTweets = NumTweets]
                r == engageWithTweetFast(s1, t, inp)
                s2 == runAutomation(Cur, inp)
            IN  (r.th.pc = "ret" /\ ~r.th.actionTaken) =>
                    /\ s2.scrollY = scrollY
                    /\ s2.processedTweets = processedTweets
                    /\ s2.cycles = cycles
                    /\ ~s2.isRunning
                    /\ First(cycleCandidates(s2)) = t

\* C38: a cycle whose engagement of the first visible unprocessed item takes
\* no action does not take the scroll fallback (it ends without a scroll step
\* of its own) and leaves the item out of the processed set; a cycle selects
\* the first visible unprocessed item, so the next cycle selects that item
\* again, and a later item only when every item before it is processed or is
\* not a visible candidate.
C38_Reselected ==
    /\ []C38_ImmediateFalse
    /\ [][\A c \in CycleIds :
             /\ EndsWithoutAction(c) =>
                   /\ scrollY' = scrollY
                   /\ processedTweets' = processedTweets
                   /\ ~isRunning'
             /\ cycles[c].pc \in EngageStages => cycles'[c].pc # "fallbackWait"
             /\ Selects(c) =>
                   \A t \in Tweets :
                       t < cycles'[c].tweet =>
                           t \in processedTweets \/ ~visibleCycle(Cur, t)]_vars

\* C38 witness: an engagement of tweet 1 has gone through its comment step
\* (the text is cached) without an action, tweet 1 is not processed, and the
\* next cycle has selected tweet 1 again
C38_Witness ==
    /\ MapHas(tweetCache, 1) /\ 1 \notin processedTweets
    /\ scrollY = 0
    /\ Cardinality(ActiveCycles) = 1
    /\ \E c \in CycleIds : cycles[c].pc = "likeFocus" /\ cycles[c].tweet = 1


(***************************************************************************)
(* SpecApiLive: SpecComment with the clock running past the age limit of   *)
(* the coordinator's queue.  Every await of the coordinator settles (the   *)
(* storage read, the fetch race with its timeout, the rate-limit delay),   *)
(* and a message sent to it is delivered.                                  *)
(***************************************************************************)
\* Time passes, to an instant at which every request queued before is old
ApiInstants == {0, ApiStaleMs + 1}

ApiClock ==
    \E t \in ApiInstants : t > now /\ Step([Cur EXCEPT !.now = t])

NextApiLive ==
    \/ SettingsUpdated({v \in CommentSettings : v.automationEnabled})
    \/ IntervalTick(CommentInputs)
    \/ StartTimerFire(CommentInputs)
    \/ CycleResume(CommentInputs)
    \/ CoordinatorReceive
    \/ ApiResume(FewApiInputs)
    \/ TabReceive(UnfocusedInputs)
    \/ ReplyResume(UnfocusedInputs)
    \/ ApiClock

SpecApiLive ==
    /\ InitComment
    /\ [][NextApiLive]_vars
    /\ WF_vars(CoordinatorReceive)
    /\ WF_vars(ApiResume(FewApiInputs))
    /\ WF_vars(TabReceive(UnfocusedInputs))

\* The requests the coordinator has accepted and not answered yet: those in
\* its queue and the one processApiRequest is working on
Held ==
    Len(rateLimitQueue)
        + (IF apiWorker.pc \in {"storage", "fetch", "json"} THEN 1 ELSE 0)

\* A task of the coordinator runs in this step
CoordinatorStep == RequestTaken \/ apiWorker' # apiWorker

\* C39: every request the coordinator accepts produces exactly one reply to
\* the tab, from the cache, generated or a fallback: a task of the coordinator
\* sends one reply for each request that leaves it and each request it
\* answers on arrival, no more and no fewer, and a request it holds, in its
\* queue behind others or in processApiRequest, is eventually answered.
C39_OneReply ==
    /\ [][CoordinatorStep =>
             Held' + Len(inbox') =
                 Held + Len(inbox) + (IF RequestTaken THEN 1 ELSE 0)]_vars
    /\ (Held > 0) ~> (Held = 0)

====
